---------------------------- MODULE Spec2Model ----------------------------
(***************************************************************************)
(* A model of the server side of Pong Extreme: the physics library         *)
(* (src/lib/game/physics.ts), the pure game-room transitions               *)
(* (src/lib/party/gameLogic.ts) and the GameServer room actor              *)
(* (party/game.ts).                                                        *)
(*                                                                         *)
(* Numbers.  The program computes in IEEE doubles.  The model computes in  *)
(* fixed point: a length or a speed v of the program is the integer        *)
(* v * Scale, an angle is an integer number of millidegrees, and products  *)
(* with a cosine or a sine are truncated toward zero.  NaN, which the      *)
(* program produces from a PADDLE_MOVE whose y is absent or not numeric,   *)
(* is the reserved value NaN, outside the range of every number the model  *)
(* computes; every comparison with it is false, as in JavaScript.          *)
(* Math.random() is an input of the operators that draw from it.           *)
(***************************************************************************)
EXTENDS Integers, Sequences, FiniteSets, TLC

VARIABLES
    state,      \* the server's field state: a GameServerState in a game
                \* room, a MatchmakerState in the matchmaker; the
                \* PhysicsState of the ball in play in SpecPhysics
    gameLoop,   \* GameServer.gameLoop # null (the interval timer is set)
    conns,      \* per connection id: "fresh", "open" or "closed"
    sent,       \* the messages the last handler sent, in order
    last        \* the last event or call, and the state it acted on:
                \* [op, conn, y, who, pre, preLoop]

vars == <<state, gameLoop, conns, sent, last>>

----------------------------------------------------------------------------
(* Constants of src/lib/game/constants.ts (src/unnamed/part_008).          *)

Scale == 1000

ARENA_WIDTH == 100
ARENA_HEIGHT == 100
PADDLE_WIDTH == 3
PADDLE_HEIGHT == 20
PADDLE_MARGIN == 2
BALL_RADIUS == 2
BALL_INITIAL_SPEED == (8 * Scale) \div 10
BALL_MAX_SPEED == 2 * Scale
BALL_SPEED_INCREMENT == (5 * Scale) \div 100
WINNING_SCORE == 7
COUNTDOWN_SECONDS == 3
\* GAME_TICK_RATE = 1000 / 60 milliseconds, kept as the fraction
\* TickRateNum / TickRateDen.
TickRateNum == 1000
TickRateDen == 60

\* MAX_BOUNCE_ANGLE = Math.PI / 3, in millidegrees.
MAX_BOUNCE_ANGLE == 60000

NaN == -999999999
NULL == "null"

U(x) == x * Scale

----------------------------------------------------------------------------
(* Arithmetic of the number type.                                          *)

IsNum(x) == x # NaN

Abs(x) == IF x < 0 THEN -x ELSE x

Min(a, b) == IF a <= b THEN a ELSE b

Max(a, b) == IF a >= b THEN a ELSE b

\* a / b truncated toward zero (b > 0).
TruncDiv(a, b) == IF a >= 0 THEN a \div b ELSE -((-a) \div b)

\* Math.round(a / b) for a >= 0, b > 0.
RoundDiv(a, b) == (2 * a + b) \div (2 * b)

RECURSIVE SqrtSearch(_, _, _)
SqrtSearch(n, lo, hi) ==
    IF lo >= hi THEN lo
    ELSE LET mid == (lo + hi + 1) \div 2
         IN  IF mid * mid <= n THEN SqrtSearch(n, mid, hi)
             ELSE SqrtSearch(n, lo, mid - 1)

\* Math.sqrt, rounded down to the fixed-point grid.
Sqrt(n) == SqrtSearch(n, 0, 4 * Scale)

\* 1000 * cos at 0, 5, ..., 90 degrees, rounded down.
CosTable ==
    <<1000, 996, 984, 965, 939, 906, 866, 819, 766, 707,
      642, 573, 500, 422, 342, 258, 173, 87, 0>>

\* 1000 * Math.cos(a) for a in millidegrees, |a| <= 90000: linear between
\* the table's entries.
Cos(a) ==
    LET m == Abs(a)
        i == m \div 5000
        r == m % 5000
    IN  IF r = 0 THEN CosTable[i + 1]
        ELSE CosTable[i + 1] - ((CosTable[i + 1] - CosTable[i + 2]) * r) \div 5000

\* 1000 * Math.sin(a) for a in millidegrees, |a| <= 90000.
Sin(a) == IF a >= 0 THEN Cos(90000 - a) ELSE -Cos(90000 + a)

----------------------------------------------------------------------------
(* src/lib/game/physics.ts                                                 *)

updateBallPosition(s) ==
    [s EXCEPT !.ballX = s.ballX + s.ballVelX,
              !.ballY = s.ballY + s.ballVelY]

checkWallCollision(s) ==
    LET top == s.ballY <= U(BALL_RADIUS)
        y1 == IF top THEN U(BALL_RADIUS) ELSE s.ballY
        v1 == IF top THEN Abs(s.ballVelY) ELSE s.ballVelY
        bottom == y1 >= U(ARENA_HEIGHT) - U(BALL_RADIUS)
        y2 == IF bottom THEN U(ARENA_HEIGHT) - U(BALL_RADIUS) ELSE y1
        v2 == IF bottom THEN -Abs(v1) ELSE v1
    IN  [s EXCEPT !.ballY = y2, !.ballVelY = v2]

calculateBallAngle(ballY, paddleY) ==
    LET half == U(PADDLE_HEIGHT) \div 2
        clampedHit == Max(-half, Min(half, ballY - paddleY))
    IN  TruncDiv(clampedHit * MAX_BOUNCE_ANGLE, half)

checkPaddleCollisionUncapped(s) ==
    LET currentSpeed == Sqrt(s.ballVelX * s.ballVelX + s.ballVelY * s.ballVelY)
        newSpeed == currentSpeed + BALL_SPEED_INCREMENT
        half == U(PADDLE_HEIGHT) \div 2
        leftPaddleX == U(PADDLE_MARGIN) + U(PADDLE_WIDTH)
        rightPaddleX == U(ARENA_WIDTH) - U(PADDLE_MARGIN) - U(PADDLE_WIDTH)
        hitsLeft ==
            /\ s.ballVelX < 0
            /\ s.ballX - U(BALL_RADIUS) <= leftPaddleX
            /\ s.ballX + U(BALL_RADIUS) >= U(PADDLE_MARGIN)
            /\ IsNum(s.paddle1Y)
            /\ s.ballY >= s.paddle1Y - half
            /\ s.ballY <= s.paddle1Y + half
        hitsRight ==
            /\ s.ballVelX > 0
            /\ s.ballX + U(BALL_RADIUS) >= rightPaddleX
            /\ s.ballX - U(BALL_RADIUS) <= U(ARENA_WIDTH) - U(PADDLE_MARGIN)
            /\ IsNum(s.paddle2Y)
            /\ s.ballY >= s.paddle2Y - half
            /\ s.ballY <= s.paddle2Y + half
    IN  IF hitsLeft THEN
            LET bounceAngle == calculateBallAngle(s.ballY, s.paddle1Y)
            IN  [s EXCEPT
                    !.ballX = leftPaddleX + U(BALL_RADIUS),
                    !.ballVelX = Abs(TruncDiv(newSpeed * Cos(bounceAngle), 1000)),
                    !.ballVelY = TruncDiv(newSpeed * Sin(bounceAngle), 1000)]
        ELSE IF hitsRight THEN
            LET bounceAngle == calculateBallAngle(s.ballY, s.paddle2Y)
            IN  [s EXCEPT
                    !.ballX = rightPaddleX - U(BALL_RADIUS),
                    !.ballVelX = -Abs(TruncDiv(newSpeed * Cos(bounceAngle), 1000)),
                    !.ballVelY = TruncDiv(newSpeed * Sin(bounceAngle), 1000)]
        ELSE s

checkPaddleCollision(s) ==
    LET currentSpeed == Sqrt(s.ballVelX * s.ballVelX + s.ballVelY * s.ballVelY)
        newSpeed == Min(currentSpeed + BALL_SPEED_INCREMENT, BALL_MAX_SPEED)
        half == U(PADDLE_HEIGHT) \div 2
        leftPaddleX == U(PADDLE_MARGIN) + U(PADDLE_WIDTH)
        rightPaddleX == U(ARENA_WIDTH) - U(PADDLE_MARGIN) - U(PADDLE_WIDTH)
        hitsLeft ==
            /\ s.ballVelX < 0
            /\ s.ballX - U(BALL_RADIUS) <= leftPaddleX
            /\ s.ballX + U(BALL_RADIUS) >= U(PADDLE_MARGIN)
            /\ IsNum(s.paddle1Y)
            /\ s.ballY >= s.paddle1Y - half
            /\ s.ballY <= s.paddle1Y + half
        hitsRight ==
            /\ s.ballVelX > 0
            /\ s.ballX + U(BALL_RADIUS) >= rightPaddleX
            /\ s.ballX - U(BALL_RADIUS) <= U(ARENA_WIDTH) - U(PADDLE_MARGIN)
            /\ IsNum(s.paddle2Y)
            /\ s.ballY >= s.paddle2Y - half
            /\ s.ballY <= s.paddle2Y + half
    IN  IF hitsLeft THEN
            LET bounceAngle == calculateBallAngle(s.ballY, s.paddle1Y)
            IN  [s EXCEPT
                    !.ballX = leftPaddleX + U(BALL_RADIUS),
                    !.ballVelX = Abs(TruncDiv(newSpeed * Cos(bounceAngle), 1000)),
                    !.ballVelY = TruncDiv(newSpeed * Sin(bounceAngle), 1000)]
        ELSE IF hitsRight THEN
            LET bounceAngle == calculateBallAngle(s.ballY, s.paddle2Y)
            IN  [s EXCEPT
                    !.ballX = rightPaddleX - U(BALL_RADIUS),
                    !.ballVelX = -Abs(TruncDiv(newSpeed * Cos(bounceAngle), 1000)),
                    !.ballVelY = TruncDiv(newSpeed * Sin(bounceAngle), 1000)]
        ELSE s

checkScoringAtTouch(s) ==
    IF s.ballX <= -U(BALL_RADIUS) THEN "player2"
    ELSE IF s.ballX >= U(ARENA_WIDTH) + U(BALL_RADIUS) THEN "player1"
    ELSE NULL

checkScoring(s) ==
    IF s.ballX < -U(BALL_RADIUS) THEN "player2"
    ELSE IF s.ballX > U(ARENA_WIDTH) + U(BALL_RADIUS) THEN "player1"
    ELSE NULL

clampPaddlePosition(y) ==
    LET minY == U(PADDLE_HEIGHT) \div 2
        maxY == U(ARENA_HEIGHT) - U(PADDLE_HEIGHT) \div 2
    IN  IF IsNum(y) THEN Max(minY, Min(maxY, y)) ELSE NaN

resetBall ==
    [ballX |-> U(50), ballY |-> U(50), ballVelX |-> 0, ballVelY |-> 0]

startBallAlwaysRight(towardsPlayer, angle) ==
    [ballX |-> U(50),
     ballY |-> U(50),
     ballVelX |-> TruncDiv(BALL_INITIAL_SPEED * Cos(angle), 1000),
     ballVelY |-> TruncDiv(BALL_INITIAL_SPEED * Sin(angle), 1000)]

startBallAwayFromPlayer(towardsPlayer, angle) ==
    LET direction == IF towardsPlayer = "player1" THEN 1 ELSE -1
    IN  [ballX |-> U(50),
         ballY |-> U(50),
         ballVelX |-> direction * TruncDiv(BALL_INITIAL_SPEED * Cos(angle), 1000),
         ballVelY |-> TruncDiv(BALL_INITIAL_SPEED * Sin(angle), 1000)]

\* angle is (Math.random() - 0.5) * (Math.PI / 2), in millidegrees.
startBall(towardsPlayer, angle) ==
    LET direction == IF towardsPlayer = "player1" THEN -1 ELSE 1
    IN  [ballX |-> U(50),
         ballY |-> U(50),
         ballVelX |-> direction * TruncDiv(BALL_INITIAL_SPEED * Cos(angle), 1000),
         ballVelY |-> TruncDiv(BALL_INITIAL_SPEED * Sin(angle), 1000)]

physicsTickScoresBeforeMove(s) ==
    LET newState == checkPaddleCollision(checkWallCollision(updateBallPosition(s)))
    IN  [state |-> newState, scored |-> checkScoring(s)]

physicsTick(s) ==
    LET newState == checkPaddleCollision(checkWallCollision(updateBallPosition(s)))
    IN  [state |-> newState, scored |-> checkScoring(newState)]

----------------------------------------------------------------------------
(* src/lib/game/types.ts (the second half of src/src/lib/game/physics.ts)  *)

createInitialGameState ==
    [ballX |-> U(50), ballY |-> U(50), ballVelX |-> 0, ballVelY |-> 0,
     paddle1Y |-> U(50), paddle2Y |-> U(50),
     score1 |-> 0, score2 |-> 0,
     status |-> "waiting", winner |-> NULL, countdown |-> 0]

----------------------------------------------------------------------------
(* src/lib/party/gameLogic.ts                                              *)

createGameServerState(roomId) ==
    [roomId |-> roomId,
     players |-> <<>>,
     gameState |-> createInitialGameState,
     tickCount |-> 0]

HasPlayer(s, connectionId) ==
    \E i \in 1..Len(s.players) : s.players[i].id = connectionId

\* state.players.find((p) => p.id === connectionId), for a present id.
getPlayer(s, connectionId) ==
    LET i == CHOOSE i \in 1..Len(s.players) :
                 /\ s.players[i].id = connectionId
                 /\ \A j \in 1..(i - 1) : s.players[j].id # connectionId
    IN  s.players[i]

addPlayerUnlimited(s, connectionId, username) ==
    LET role == IF Len(s.players) = 0 THEN "host" ELSE "guest"
        player == [id |-> connectionId, username |-> username, role |-> role]
    IN  [s EXCEPT !.players = Append(s.players, player)]

addPlayer(s, connectionId, username) ==
    IF Len(s.players) >= 2 THEN s
    ELSE LET role == IF Len(s.players) = 0 THEN "host" ELSE "guest"
             player == [id |-> connectionId, username |-> username, role |-> role]
         IN  [s EXCEPT !.players = Append(s.players, player)]

removePlayerLeaverWins(s, connectionId) ==
    IF ~HasPlayer(s, connectionId) THEN s
    ELSE LET newPlayers == SelectSeq(s.players, LAMBDA p : p.id # connectionId)
             winner == IF getPlayer(s, connectionId).role = "host"
                       THEN "player1" ELSE "player2"
             newGameState ==
                 IF s.gameState.status \in {"playing", "countdown"}
                 THEN [s.gameState EXCEPT !.status = "finished", !.winner = winner]
                 ELSE s.gameState
         IN  [s EXCEPT !.players = newPlayers, !.gameState = newGameState]

removePlayerReopensRoom(s, connectionId) ==
    IF ~HasPlayer(s, connectionId) THEN s
    ELSE LET newPlayers == SelectSeq(s.players, LAMBDA p : p.id # connectionId)
             newGameState ==
                 IF s.gameState.status \in {"playing", "countdown"}
                 THEN [s.gameState EXCEPT !.status = "waiting"]
                 ELSE s.gameState
         IN  [s EXCEPT !.players = newPlayers, !.gameState = newGameState]

removePlayer(s, connectionId) ==
    IF ~HasPlayer(s, connectionId) THEN s
    ELSE LET newPlayers == SelectSeq(s.players, LAMBDA p : p.id # connectionId)
             \* remainingPlayer?.role === 'host' ? 'player1' : 'player2'
             winner == IF Len(newPlayers) > 0 /\ newPlayers[1].role = "host"
                       THEN "player1" ELSE "player2"
             newGameState ==
                 IF s.gameState.status \in {"playing", "countdown"}
                 THEN [s.gameState EXCEPT !.status = "finished", !.winner = winner]
                 ELSE s.gameState
         IN  [s EXCEPT !.players = newPlayers, !.gameState = newGameState]

updatePaddlePositionOneSide(s, connectionId, y) ==
    IF ~HasPlayer(s, connectionId) THEN s
    ELSE [s EXCEPT !.gameState.paddle1Y = clampPaddlePosition(y)]

updatePaddlePosition(s, connectionId, y) ==
    IF ~HasPlayer(s, connectionId) THEN s
    ELSE LET clampedY == clampPaddlePosition(y)
         IN  IF getPlayer(s, connectionId).role = "host"
             THEN [s EXCEPT !.gameState.paddle1Y = clampedY]
             ELSE [s EXCEPT !.gameState.paddle2Y = clampedY]

startCountdownAnyPlayers(s) ==
    IF Len(s.players) < 1 THEN s
    ELSE [s EXCEPT !.gameState.status = "countdown",
                   !.gameState.countdown = COUNTDOWN_SECONDS]

startCountdown(s) ==
    IF Len(s.players) < 2 THEN s
    ELSE [s EXCEPT !.gameState.status = "countdown",
                   !.gameState.countdown = COUNTDOWN_SECONDS]

\* serveToPlayer is Math.random() < 0.5 ? 'player1' : 'player2'; angle is
\* startBall's random angle.
startGame(s, serveToPlayer, angle) ==
    LET ballState == startBall(serveToPlayer, angle)
    IN  [s EXCEPT !.gameState.status = "playing",
                  !.gameState.ballX = ballState.ballX,
                  !.gameState.ballY = ballState.ballY,
                  !.gameState.ballVelX = ballState.ballVelX,
                  !.gameState.ballVelY = ballState.ballVelY,
                  !.gameState.countdown = 0]

handleScoringAlwaysServes(s, scorer, angle) ==
    LET score1 == IF scorer = "player1" THEN s.gameState.score1 + 1
                  ELSE s.gameState.score1
        score2 == IF scorer = "player1" THEN s.gameState.score2
                  ELSE s.gameState.score2 + 1
        winner == IF score1 >= WINNING_SCORE THEN "player1"
                  ELSE IF score2 >= WINNING_SCORE THEN "player2"
                  ELSE NULL
        status == IF score1 >= WINNING_SCORE \/ score2 >= WINNING_SCORE
                  THEN "finished" ELSE s.gameState.status
        ballState == startBall(scorer, angle)
    IN  [s EXCEPT !.gameState.score1 = score1,
                  !.gameState.score2 = score2,
                  !.gameState.winner = winner,
                  !.gameState.status = status,
                  !.gameState.ballX = ballState.ballX,
                  !.gameState.ballY = ballState.ballY,
                  !.gameState.ballVelX = ballState.ballVelX,
                  !.gameState.ballVelY = ballState.ballVelY]

handleScoringFinishesLate(s, scorer, angle) ==
    LET score1 == IF scorer = "player1" THEN s.gameState.score1 + 1
                  ELSE s.gameState.score1
        score2 == IF scorer = "player1" THEN s.gameState.score2
                  ELSE s.gameState.score2 + 1
        winner == IF score1 > WINNING_SCORE THEN "player1"
                  ELSE IF score2 > WINNING_SCORE THEN "player2"
                  ELSE NULL
        status == IF score1 > WINNING_SCORE \/ score2 > WINNING_SCORE
                  THEN "finished" ELSE s.gameState.status
        scored == [s EXCEPT !.gameState.score1 = score1,
                            !.gameState.score2 = score2,
                            !.gameState.winner = winner,
                            !.gameState.status = status]
        ballState == startBall(scorer, angle)
    IN  IF status = "finished" THEN scored
        ELSE [scored EXCEPT !.gameState.ballX = ballState.ballX,
                            !.gameState.ballY = ballState.ballY,
                            !.gameState.ballVelX = ballState.ballVelX,
                            !.gameState.ballVelY = ballState.ballVelY]

handleScoringNamesScorer(s, scorer, angle) ==
    LET score1 == IF scorer = "player1" THEN s.gameState.score1 + 1
                  ELSE s.gameState.score1
        score2 == IF scorer = "player1" THEN s.gameState.score2
                  ELSE s.gameState.score2 + 1
        status == IF score1 >= WINNING_SCORE \/ score2 >= WINNING_SCORE
                  THEN "finished" ELSE s.gameState.status
        scored == [s EXCEPT !.gameState.score1 = score1,
                            !.gameState.score2 = score2,
                            !.gameState.winner = scorer,
                            !.gameState.status = status]
        ballState == startBall(scorer, angle)
    IN  IF status = "finished" THEN scored
        ELSE [scored EXCEPT !.gameState.ballX = ballState.ballX,
                            !.gameState.ballY = ballState.ballY,
                            !.gameState.ballVelX = ballState.ballVelX,
                            !.gameState.ballVelY = ballState.ballVelY]

\* angle is the random angle of the serve that follows a point.
handleScoring(s, scorer, angle) ==
    LET score1 == IF scorer = "player1" THEN s.gameState.score1 + 1
                  ELSE s.gameState.score1
        score2 == IF scorer = "player1" THEN s.gameState.score2
                  ELSE s.gameState.score2 + 1
        winner == IF score1 >= WINNING_SCORE THEN "player1"
                  ELSE IF score2 >= WINNING_SCORE THEN "player2"
                  ELSE NULL
        status == IF score1 >= WINNING_SCORE \/ score2 >= WINNING_SCORE
                  THEN "finished" ELSE s.gameState.status
        scored == [s EXCEPT !.gameState.score1 = score1,
                            !.gameState.score2 = score2,
                            !.gameState.winner = winner,
                            !.gameState.status = status]
        \* resetBall() is spread first and startBall(scorer) over it.
        ballState == startBall(scorer, angle)
    IN  IF status = "finished" THEN scored
        ELSE [scored EXCEPT !.gameState.ballX = ballState.ballX,
                            !.gameState.ballY = ballState.ballY,
                            !.gameState.ballVelX = ballState.ballVelX,
                            !.gameState.ballVelY = ballState.ballVelY]

ticksPerSecondOfInterval == RoundDiv(TickRateNum, TickRateDen)

\* Math.round(1000 / GAME_TICK_RATE)
ticksPerSecond == RoundDiv(1000 * TickRateDen, TickRateNum)

\* tick, status countdown.
tickCountdown(s, serveToPlayer, angle) ==
    LET gs == s.gameState
        newTickCount == s.tickCount + 1
        newCountdown == IF newTickCount % ticksPerSecond = 0
                        THEN Max(0, gs.countdown - 1)
                        ELSE gs.countdown
    IN  IF newCountdown = 0 /\ gs.countdown > 0
        THEN startGame([s EXCEPT !.tickCount = newTickCount], serveToPlayer, angle)
        ELSE [s EXCEPT !.tickCount = newTickCount,
                       !.gameState.countdown = newCountdown]

\* tick, status playing.
tickPlaying(s, angle) ==
    LET gs == s.gameState
        physicsState ==
            [ballX |-> gs.ballX, ballY |-> gs.ballY,
             ballVelX |-> gs.ballVelX, ballVelY |-> gs.ballVelY,
             paddle1Y |-> gs.paddle1Y, paddle2Y |-> gs.paddle2Y]
        result == physicsTick(physicsState)
        newState ==
            [s EXCEPT !.tickCount = s.tickCount + 1,
                      !.gameState.ballX = result.state.ballX,
                      !.gameState.ballY = result.state.ballY,
                      !.gameState.ballVelX = result.state.ballVelX,
                      !.gameState.ballVelY = result.state.ballVelY]
    IN  IF result.scored # NULL
        THEN handleScoring(newState, result.scored, angle)
        ELSE newState

tickCountsWhenIdle(s, serveToPlayer, angle) ==
    IF s.gameState.status = "countdown" THEN tickCountdown(s, serveToPlayer, angle)
    ELSE IF s.gameState.status # "playing" THEN [s EXCEPT !.tickCount = s.tickCount + 1]
    ELSE tickPlaying(s, angle)

\* serveToPlayer and angle are the random draws of startGame and of the
\* serve after a point; a tick that does neither ignores them.
tick(s, serveToPlayer, angle) ==
    IF s.gameState.status = "countdown" THEN tickCountdown(s, serveToPlayer, angle)
    ELSE IF s.gameState.status # "playing" THEN s
    ELSE tickPlaying(s, angle)

isReadyToStartWithOne(s) ==
    Len(s.players) >= 1 /\ s.gameState.status = "waiting"

isReadyToStart(s) ==
    Len(s.players) = 2 /\ s.gameState.status = "waiting"

----------------------------------------------------------------------------
(* Bounds and inputs.                                                      *)

\* Connection ids are 1..MaxConns, numbered in the order the connections
\* arrive; an id connects once.
MaxConns == 3
\* The timer fires while state.tickCount is below MaxTick.
MaxTick == 181
\* While the countdown runs, client events (connects, closes, messages)
\* arrive within ArrivalSlack ticks of a second boundary.  A countdown tick
\* touches only tickCount and countdown until it starts the game, and no
\* client event reads either, so an event that arrives between two
\* boundaries has the effect it has at the boundary.
ArrivalSlack == 1

Conns == 1..MaxConns

Sides == {"player1", "player2"}

\* Values of (Math.random() - 0.5) * (Math.PI / 2), in millidegrees.
ServeAngles == {-45000, 0, 30000}

\* The y a PADDLE_MOVE carries, after the Math.min/Math.max coercion: a
\* number inside or above the paddle range, or NaN (y absent or not
\* numeric).
PaddleInputs == {NaN, U(50), U(120)}

ABSENT == "<absent>"

\* The username query parameter each connection's URL carries.
QueryUsername(c) ==
    CASE c = 1 -> "Alice"
      [] c = 2 -> ABSENT
      [] OTHER -> "x!"

RoomId == "room"

\* The record of a call or event: op names it, conn is the connection id it
\* is given (0: none), y the paddle position, who the side (scorer or
\* serveToPlayer), pre and preLoop the state and timer it acted on.
CallOn(op, c, y, who, s) ==
    [op |-> op, conn |-> c, y |-> y, who |-> who, pre |-> s, preLoop |-> gameLoop]

Call(op, c, y) == CallOn(op, c, y, NULL, state)

NoCall ==
    [op |-> "init", conn |-> 0, y |-> 0, who |-> NULL,
     pre |-> createGameServerState(RoomId), preLoop |-> FALSE]

----------------------------------------------------------------------------
(* party/game.ts, class GameServer                                         *)

\* A message: to = 0 is a broadcast to the room, otherwise a connection id.
Msg(type, to, val) == [type |-> type, to |-> to, val |-> val]

PlayerNumberName(n) ==
    CASE n = 1 -> "Player1"
      [] n = 2 -> "Player2"
      [] OTHER -> "Player3"

\* A client event can arrive in the current state.
Arrives ==
    LET phase == state.tickCount % ticksPerSecond
    IN  \/ state.gameState.status # "countdown"
        \/ phase < ArrivalSlack
        \/ phase >= ticksPerSecond - ArrivalSlack

\* The random draws a tick of s can read: all of them when the tick serves
\* the ball, otherwise one (the tick ignores them).
Draws(s) ==
    LET all == Sides \X ServeAngles
        one == <<"player1", 0>>
    IN  IF \A d \in all : tick(s, d[1], d[2]) = tick(s, one[1], one[2])
        THEN {one} ELSE all

Init ==
    /\ state = createGameServerState(RoomId)
    /\ gameLoop = FALSE
    /\ conns = [c \in Conns |-> "fresh"]
    /\ sent = <<>>
    /\ last = NoCall

\* startCountdownPhase(): the state and messages it produces from s; it
\* always ends in startGameLoop().
startCountdownPhase(s) ==
    LET s2 == startCountdown(s)
    IN  [state |-> s2,
         sent |-> <<Msg("COUNTDOWN", 0, <<s2.gameState.countdown>>)>>]

OnConnectWithoutLoop(c) ==
    /\ Arrives
    /\ conns[c] = "fresh"
    /\ \A d \in Conns : d < c => conns[d] # "fresh"
    /\ LET q == QueryUsername(c)
           username == IF q = ABSENT
                       THEN PlayerNumberName(Len(state.players) + 1) ELSE q
           s1 == addPlayer(state, c, username)
           joined == HasPlayer(s1, c)
           hello == IF joined
                    THEN <<Msg("ASSIGNED_ROLE", c, <<getPlayer(s1, c).role, c>>),
                           Msg("PLAYER_JOINED", 0, <<getPlayer(s1, c)>>)>>
                    ELSE <<>>
           snapshot == <<Msg("GAME_STATE", c, <<s1.gameState>>)>>
           ready == isReadyToStart(s1)
           phase == startCountdownPhase(s1)
       IN  /\ state' = IF ready THEN phase.state ELSE s1
           /\ sent' = hello \o snapshot \o (IF ready THEN phase.sent ELSE <<>>)
           /\ UNCHANGED gameLoop
    /\ conns' = [conns EXCEPT ![c] = "open"]
    /\ last' = Call("connect", c, 0)

OnConnect(c) ==
    /\ Arrives
    /\ conns[c] = "fresh"
    /\ \A d \in Conns : d < c => conns[d] # "fresh"
    /\ LET q == QueryUsername(c)
           username == IF q = ABSENT
                       THEN PlayerNumberName(Len(state.players) + 1) ELSE q
           s1 == addPlayer(state, c, username)
           joined == HasPlayer(s1, c)
           hello == IF joined
                    THEN <<Msg("ASSIGNED_ROLE", c, <<getPlayer(s1, c).role, c>>),
                           Msg("PLAYER_JOINED", 0, <<getPlayer(s1, c)>>)>>
                    ELSE <<>>
           snapshot == <<Msg("GAME_STATE", c, <<s1.gameState>>)>>
           ready == isReadyToStart(s1)
           phase == startCountdownPhase(s1)
       IN  /\ state' = IF ready THEN phase.state ELSE s1
           /\ sent' = hello \o snapshot \o (IF ready THEN phase.sent ELSE <<>>)
           /\ gameLoop' = IF ready THEN TRUE ELSE gameLoop
    /\ conns' = [conns EXCEPT ![c] = "open"]
    /\ last' = Call("connect", c, 0)

\* onClose(connection), also the body of handleLeave(sender).
CloseEffect(c) ==
    LET wasPlayer == HasPlayer(state, c)
        s1 == removePlayer(state, c)
        finished == s1.gameState.status = "finished"
    IN  /\ state' = s1
        /\ sent' = IF ~wasPlayer THEN <<>>
                   ELSE <<Msg("PLAYER_LEFT", 0, <<c>>)>> \o
                        (IF finished
                         THEN <<Msg("OPPONENT_DISCONNECTED", 0, <<>>)>>
                         ELSE <<>>)
        /\ gameLoop' = IF wasPlayer /\ finished THEN FALSE ELSE gameLoop

OnClose(c) ==
    /\ Arrives
    /\ conns[c] = "open"
    /\ CloseEffect(c)
    /\ conns' = [conns EXCEPT ![c] = "closed"]
    /\ last' = Call("close", c, 0)

handleLeave(c) ==
    /\ Arrives
    /\ conns[c] = "open"
    /\ CloseEffect(c)
    /\ UNCHANGED conns
    /\ last' = Call("LEAVE", c, 0)

handlePaddleMove(c, y) ==
    /\ Arrives
    /\ conns[c] = "open"
    /\ state' = updatePaddlePosition(state, c, y)
    /\ sent' = <<>>
    /\ UNCHANGED <<gameLoop, conns>>
    /\ last' = Call("PADDLE_MOVE", c, y)

handlePauseKeepsLoop(c) ==
    /\ Arrives
    /\ conns[c] = "open"
    /\ IF state.gameState.status = "playing"
       THEN /\ state' = [state EXCEPT !.gameState.status = "paused"]
            /\ UNCHANGED gameLoop
            /\ sent' = <<Msg("GAME_STATE", 0, <<state'.gameState>>)>>
       ELSE /\ UNCHANGED <<state, gameLoop>>
            /\ sent' = <<>>
    /\ UNCHANGED conns
    /\ last' = Call("PAUSE", c, 0)

handlePause(c) ==
    /\ Arrives
    /\ conns[c] = "open"
    /\ IF state.gameState.status = "playing"
       THEN /\ state' = [state EXCEPT !.gameState.status = "paused"]
            /\ gameLoop' = FALSE
            /\ sent' = <<Msg("GAME_STATE", 0, <<state'.gameState>>)>>
       ELSE /\ UNCHANGED <<state, gameLoop>>
            /\ sent' = <<>>
    /\ UNCHANGED conns
    /\ last' = Call("PAUSE", c, 0)

handleResumeWithoutLoop(c) ==
    /\ Arrives
    /\ conns[c] = "open"
    /\ IF state.gameState.status = "paused"
       THEN /\ state' = [state EXCEPT !.gameState.status = "playing"]
            /\ UNCHANGED gameLoop
            /\ sent' = <<Msg("GAME_STATE", 0, <<state'.gameState>>)>>
       ELSE /\ UNCHANGED <<state, gameLoop>>
            /\ sent' = <<>>
    /\ UNCHANGED conns
    /\ last' = Call("RESUME", c, 0)

handleResumeAfterEnd(c) ==
    /\ Arrives
    /\ conns[c] = "open"
    /\ IF state.gameState.status \in {"paused", "finished"}
       THEN /\ state' = [state EXCEPT !.gameState.status = "playing"]
            /\ gameLoop' = TRUE
            /\ sent' = <<Msg("GAME_STATE", 0, <<state'.gameState>>)>>
       ELSE /\ UNCHANGED <<state, gameLoop>>
            /\ sent' = <<>>
    /\ UNCHANGED conns
    /\ last' = Call("RESUME", c, 0)

handleResume(c) ==
    /\ Arrives
    /\ conns[c] = "open"
    /\ IF state.gameState.status = "paused"
       THEN /\ state' = [state EXCEPT !.gameState.status = "playing"]
            /\ gameLoop' = TRUE
            /\ sent' = <<Msg("GAME_STATE", 0, <<state'.gameState>>)>>
       ELSE /\ UNCHANGED <<state, gameLoop>>
            /\ sent' = <<>>
    /\ UNCHANGED conns
    /\ last' = Call("RESUME", c, 0)

\* READY, and every message onMessage does nothing with: text that does
\* not parse (caught and logged) or a type no case matches.
OnIgnoredMessage(c) ==
    /\ Arrives
    /\ conns[c] = "open"
    /\ sent' = <<>>
    /\ UNCHANGED <<state, gameLoop, conns>>
    /\ last' = Call("ignored", c, 0)

TimerFireKeepsRunning(limit) ==
    /\ gameLoop
    /\ state.tickCount < limit
    /\ \E draw \in Draws(state) :
        LET serveToPlayer == draw[1]
            angle == draw[2]
            previousStatus == state.gameState.status
            previousCountdown == state.gameState.countdown
            s1 == tick(state, serveToPlayer, angle)
            gs == s1.gameState
            start == IF previousStatus = "countdown" /\ gs.status = "playing"
                     THEN <<Msg("GAME_START", 0, <<>>)>> ELSE <<>>
            count == IF previousStatus = "countdown" /\ gs.countdown # previousCountdown
                     THEN <<Msg("COUNTDOWN", 0, <<gs.countdown>>)>> ELSE <<>>
            over == IF gs.status = "finished"
                    THEN <<Msg("GAME_OVER", 0, <<gs.winner, gs.score1, gs.score2>>)>>
                    ELSE <<>>
        IN  /\ state' = s1
            /\ UNCHANGED gameLoop
            /\ sent' = start \o count \o over \o <<Msg("GAME_STATE", 0, <<gs>>)>>
    /\ UNCHANGED conns
    /\ last' = Call("timer", 0, 0)

\* The setInterval callback of startGameLoop(), fired while state.tickCount
\* is below limit.
TimerFireBelow(limit) ==
    /\ gameLoop
    /\ state.tickCount < limit
    /\ \E draw \in Draws(state) :
        LET serveToPlayer == draw[1]
            angle == draw[2]
            previousStatus == state.gameState.status
            previousCountdown == state.gameState.countdown
            s1 == tick(state, serveToPlayer, angle)
            gs == s1.gameState
            start == IF previousStatus = "countdown" /\ gs.status = "playing"
                     THEN <<Msg("GAME_START", 0, <<>>)>> ELSE <<>>
            count == IF previousStatus = "countdown" /\ gs.countdown # previousCountdown
                     THEN <<Msg("COUNTDOWN", 0, <<gs.countdown>>)>> ELSE <<>>
            over == IF gs.status = "finished"
                    THEN <<Msg("GAME_OVER", 0, <<gs.winner, gs.score1, gs.score2>>)>>
                    ELSE <<>>
        IN  /\ state' = s1
            /\ gameLoop' = IF gs.status = "finished" THEN FALSE ELSE gameLoop
            /\ sent' = start \o count \o over \o <<Msg("GAME_STATE", 0, <<gs>>)>>
    /\ UNCHANGED conns
    /\ last' = Call("timer", 0, 0)

TimerFire == TimerFireBelow(MaxTick)

Next ==
    \/ \E c \in Conns : OnConnect(c)
    \/ \E c \in Conns : OnClose(c)
    \/ \E c \in Conns : handleLeave(c)
    \/ \E c \in Conns, y \in PaddleInputs : handlePaddleMove(c, y)
    \/ \E c \in Conns : handlePause(c)
    \/ \E c \in Conns : handleResume(c)
    \/ \E c \in Conns : OnIgnoredMessage(c)
    \/ TimerFire

Spec == Init /\ [][Next]_vars

\* The room up to the tick that ends the countdown.  setInterval calls the
\* callback again and again for as long as the interval is set, so a
\* callback that stays enabled is eventually run.
CountdownTimerFire == TimerFireBelow(COUNTDOWN_SECONDS * ticksPerSecond)

NextFair ==
    \/ \E c \in Conns : OnConnect(c)
    \/ \E c \in Conns : OnClose(c)
    \/ \E c \in Conns : handleLeave(c)
    \/ \E c \in Conns, y \in PaddleInputs : handlePaddleMove(c, y)
    \/ \E c \in Conns : handlePause(c)
    \/ \E c \in Conns : handleResume(c)
    \/ \E c \in Conns : OnIgnoredMessage(c)
    \/ CountdownTimerFire

SpecFair == Init /\ [][NextFair]_vars /\ WF_vars(CountdownTimerFire)

----------------------------------------------------------------------------
(* The pure transitions of gameLogic.ts, each applied once to a state      *)
(* drawn from LogicStates.                                                 *)

\* Ids of the players of a drawn state (calls also pass the ids of Conns
\* that are no player).
LogicIds == {1, 2}

LogicPlayer(c, role) ==
    [id |-> c, username |-> PlayerNumberName(c), role |-> role]

\* The player lists addPlayer and removePlayer produce: the first player is
\* the host, or a guest whose host left; a second player is a guest.
LogicPlayers ==
    {<<>>}
    \cup {<<LogicPlayer(c, r)>> : c \in LogicIds, r \in {"host", "guest"}}
    \cup {<<LogicPlayer(c[1], r), LogicPlayer(c[2], "guest")>> :
            c \in {d \in LogicIds \X LogicIds : d[1] # d[2]},
            r \in {"host", "guest"}}

\* <<status, winner, countdown>>
LogicPhases ==
    {<<"waiting", NULL, 0>>,
     <<"countdown", NULL, 3>>, <<"countdown", NULL, 2>>, <<"countdown", NULL, 1>>,
     <<"playing", NULL, 0>>, <<"paused", NULL, 0>>,
     <<"finished", "player1", 0>>, <<"finished", "player2", 0>>,
     <<"finished", "player2", 2>>}

\* <<score1, score2>>
LogicScores == {<<0, 0>>, <<3, 2>>, <<6, 0>>, <<6, 6>>}

\* <<ballX, ballY, ballVelX, ballVelY>>: at rest in the centre, in flight,
\* one tick from leaving on the right, one tick from leaving on the left.
LogicBalls ==
    {<<U(50), U(50), 0, 0>>,
     <<U(30), U(40), -640, 480>>,
     <<U(102) - 100, U(50), 800, 0>>,
     <<100 - U(2), U(97), -565, 565>>}

\* <<paddle1Y, paddle2Y>>
LogicPaddles == {<<U(50), U(50)>>, <<U(10), U(90)>>, <<NaN, U(50)>>}

LogicTickCounts == {0, 179}

\* The y values updatePaddlePosition is called with.
LogicPaddleInputs == {NaN, U(-5), U(35), U(120)}

LogicStates ==
    {[roomId |-> RoomId,
      players |-> p,
      gameState |->
          [ballX |-> b[1], ballY |-> b[2], ballVelX |-> b[3], ballVelY |-> b[4],
           paddle1Y |-> y[1], paddle2Y |-> y[2],
           score1 |-> sc[1], score2 |-> sc[2],
           status |-> ph[1], winner |-> ph[2], countdown |-> ph[3]],
      tickCount |-> t] :
        p \in LogicPlayers, ph \in LogicPhases, sc \in LogicScores,
        b \in LogicBalls, y \in LogicPaddles, t \in LogicTickCounts}

InitLogic ==
    /\ state \in LogicStates
    /\ gameLoop = FALSE
    /\ conns = [c \in Conns |-> "fresh"]
    /\ sent = <<>>
    /\ last = [NoCall EXCEPT !.pre = state]

\* A call of a pure function: state becomes its result.
Returns(op, c, y, who, result) ==
    /\ state' = result
    /\ last' = CallOn(op, c, y, who, state)
    /\ UNCHANGED <<gameLoop, conns, sent>>

CallAddPlayer(c) ==
    /\ last.op = "init"
    /\ Returns("addPlayer", c, 0, NULL, addPlayer(state, c, PlayerNumberName(c)))

CallRemovePlayer(c) ==
    /\ last.op = "init"
    /\ Returns("removePlayer", c, 0, NULL, removePlayer(state, c))

CallUpdatePaddlePosition(c, y) ==
    /\ last.op = "init"
    /\ Returns("updatePaddlePosition", c, y, NULL, updatePaddlePosition(state, c, y))

CallStartCountdown ==
    /\ last.op = "init"
    /\ Returns("startCountdown", 0, 0, NULL, startCountdown(state))

CallStartGame(serveToPlayer, angle) ==
    /\ last.op = "init"
    /\ Returns("startGame", 0, angle, serveToPlayer,
               startGame(state, serveToPlayer, angle))

CallTick ==
    /\ last.op = "init"
    /\ \E draw \in Draws(state) :
        Returns("tick", 0, draw[2], draw[1], tick(state, draw[1], draw[2]))

CallHandleScoring(scorer, angle) ==
    /\ last.op = "init"
    /\ Returns("handleScoring", 0, angle, scorer,
               handleScoring(state, scorer, angle))

NextLogic ==
    \/ \E c \in Conns : CallAddPlayer(c)
    \/ \E c \in Conns : CallRemovePlayer(c)
    \/ \E c \in Conns, y \in LogicPaddleInputs : CallUpdatePaddlePosition(c, y)
    \/ CallStartCountdown
    \/ \E who \in Sides, angle \in ServeAngles : CallStartGame(who, angle)
    \/ CallTick
    \/ \E who \in Sides, angle \in ServeAngles : CallHandleScoring(who, angle)

SpecLogic == InitLogic /\ [][NextLogic]_vars

----------------------------------------------------------------------------
(* Sequences of addPlayer and removePlayer calls on a new room.            *)

PlayerNames == {"Alice", "Bob"}

InitPlayers ==
    /\ state = createGameServerState(RoomId)
    /\ gameLoop = FALSE
    /\ conns = [c \in Conns |-> "fresh"]
    /\ sent = <<>>
    /\ last = NoCall

NextAddPlayer(c, username) ==
    Returns("addPlayer", c, 0, NULL, addPlayer(state, c, username))

NextRemovePlayer(c) ==
    Returns("removePlayer", c, 0, NULL, removePlayer(state, c))

NextPlayers ==
    \/ \E c \in Conns, username \in PlayerNames : NextAddPlayer(c, username)
    \/ \E c \in Conns : NextRemovePlayer(c)

SpecPlayers == InitPlayers /\ [][NextPlayers]_vars

----------------------------------------------------------------------------
(* tick applied again and again to the state startCountdown produces on a  *)
(* new room with two players.                                              *)

TwoPlayerRoom ==
    addPlayer(addPlayer(createGameServerState(RoomId), 1, "Alice"), 2, "Bob")

InitCountdown ==
    /\ state = startCountdown(TwoPlayerRoom)
    /\ gameLoop = FALSE
    /\ conns = [c \in Conns |-> "fresh"]
    /\ sent = <<>>
    /\ last = CallOn("startCountdown", 0, 0, NULL, TwoPlayerRoom)

NextTick ==
    /\ state.tickCount < MaxTick
    /\ \E draw \in Draws(state) :
        Returns("tick", 0, draw[2], draw[1], tick(state, draw[1], draw[2]))

SpecCountdown == InitCountdown /\ [][NextTick]_vars

----------------------------------------------------------------------------
(* The GameServer in the last points of a match.  The match starts where   *)
(* this run of the program has brought it: both players connected and      *)
(* moved their paddles to the bottom (PADDLE_MOVE with y = 120), the        *)
(* countdown ran, and every serve so far had the angle 0 and left the arena *)
(* unreturned, so that the points alternated up to 5 : 6 or 6 : 5 and the   *)
(* ball of the twelfth point is one tick from leaving.                      *)

\* The ticks from a serve with the angle 0 to the tick that scores it.
ServeTicks == ((U(50) + U(BALL_RADIUS)) \div BALL_INITIAL_SPEED) + 1

\* The timer fires while the match has run fewer than MaxMatchTicks ticks
\* past its start.
MaxMatchTicks == 70

MatchStartTick ==
    COUNTDOWN_SECONDS * ticksPerSecond + 2 * (WINNING_SCORE - 1) * ServeTicks - 1

\* The room one tick before scorer's sixth point.
MatchRoom(scorer) ==
    LET room == addPlayer(addPlayer(createGameServerState(RoomId),
                                    1, QueryUsername(1)), 2, PlayerNumberName(2))
        down == updatePaddlePosition(updatePaddlePosition(room, 1, U(120)),
                                     2, U(120))
        served == startBall(IF scorer = "player1" THEN "player2" ELSE "player1", 0)
    IN  [down EXCEPT
            !.tickCount = MatchStartTick,
            !.gameState.status = "playing",
            !.gameState.score1 = WINNING_SCORE - (IF scorer = "player1" THEN 2 ELSE 1),
            !.gameState.score2 = WINNING_SCORE - (IF scorer = "player2" THEN 2 ELSE 1),
            !.gameState.ballX = served.ballX + (ServeTicks - 1) * served.ballVelX,
            !.gameState.ballY = served.ballY,
            !.gameState.ballVelX = served.ballVelX,
            !.gameState.ballVelY = served.ballVelY]

InitMatch ==
    /\ \E scorer \in Sides : state = MatchRoom(scorer)
    /\ gameLoop = TRUE
    /\ conns = [c \in Conns |-> IF c <= 2 THEN "open" ELSE "fresh"]
    /\ sent = <<Msg("GAME_STATE", 0, <<state.gameState>>)>>
    /\ last = [NoCall EXCEPT !.pre = state, !.preLoop = TRUE]

\* Client events arrive while the ball is near the centre line, where a
\* serve starts: less than ArrivalSlack half ticks of a serve's flight away;
\* and at any time after the match has ended.
MatchArrives ==
    \/ state.gameState.status = "finished"
    \/ Abs(state.gameState.ballX - U(50)) < ArrivalSlack * (BALL_INITIAL_SPEED \div 2)

MatchTimerFire == TimerFireBelow(MatchStartTick + MaxMatchTicks)

NextMatch ==
    \/ MatchArrives /\ \E c \in Conns : OnConnect(c)
    \/ MatchArrives /\ \E c \in Conns : OnClose(c)
    \/ MatchArrives /\ \E c \in Conns : handleLeave(c)
    \/ MatchArrives /\ \E c \in Conns, y \in PaddleInputs : handlePaddleMove(c, y)
    \/ MatchArrives /\ \E c \in Conns : handlePause(c)
    \/ MatchArrives /\ \E c \in Conns : handleResume(c)
    \/ MatchArrives /\ \E c \in Conns : OnIgnoredMessage(c)
    \/ MatchTimerFire

SpecMatch == InitMatch /\ [][NextMatch]_vars

----------------------------------------------------------------------------
(* Strings.  A username is the sequence of its characters.                 *)

----------------------------------------------------------------------------
(* The functions of physics.ts applied to a ball in play.  In this          *)
(* specification the variable state holds a PhysicsState; last is           *)
(* [op, who, y, pre, ret]: the call, its arguments, the state it was given  *)
(* and what it returned.                                                    *)

\* The model's speeds are exact up to SpeedSlack thousandths: the two
\* velocity components are each rounded toward zero, and the cosine is
\* linear between the entries of CosTable.
SpeedSlack == 2

\* <<paddle1Y, paddle2Y>> of the rallies.
PhysicsPaddles == {<<U(50), U(50)>>, <<U(70), U(70)>>, <<U(10), U(90)>>}

\* The ballX values checkScoring is called with: at, next to and between
\* the two lines a ball must pass to score.
ScoringInputs ==
    {-U(BALL_RADIUS) - 1, -U(BALL_RADIUS), U(BALL_RADIUS), U(50),
     U(ARENA_WIDTH) - U(BALL_RADIUS), U(ARENA_WIDTH) + U(BALL_RADIUS),
     U(ARENA_WIDTH) + U(BALL_RADIUS) + 1}

\* s with the ball b, as handleScoring and startGame spread a BallState.
WithBall(s, b) ==
    [s EXCEPT !.ballX = b.ballX, !.ballY = b.ballY,
              !.ballVelX = b.ballVelX, !.ballVelY = b.ballVelY]

PhysicsCall(op, who, y, ret) ==
    [op |-> op, who |-> who, y |-> y, pre |-> state, ret |-> ret]

\* The serve of startGame: either side, any angle, over the paddles.
InitPhysics ==
    /\ \E who \in Sides, angle \in ServeAngles, y \in PhysicsPaddles :
          /\ state = [ballX |-> startBall(who, angle).ballX,
                      ballY |-> startBall(who, angle).ballY,
                      ballVelX |-> startBall(who, angle).ballVelX,
                      ballVelY |-> startBall(who, angle).ballVelY,
                      paddle1Y |-> y[1], paddle2Y |-> y[2]]
          /\ last = [op |-> "startBall", who |-> who, y |-> angle,
                     pre |-> state, ret |-> NULL]
    /\ gameLoop = FALSE
    /\ conns = [c \in Conns |-> "fresh"]
    /\ sent = <<>>

\* physicsTick on a ball in play.
CallPhysicsTick ==
    /\ checkScoring(state) = NULL
    /\ LET result == physicsTick(state)
       IN  /\ state' = result.state
           /\ last' = PhysicsCall("physicsTick", NULL, 0, result.scored)
    /\ UNCHANGED <<gameLoop, conns, sent>>

\* The serve of handleScoring: startBall(scorer) once the ball has left.
CallStartBall(angle) ==
    /\ checkScoring(state) # NULL
    /\ LET scorer == checkScoring(state)
       IN  /\ state' = WithBall(state, startBall(scorer, angle))
           /\ last' = PhysicsCall("startBall", scorer, angle, NULL)
    /\ UNCHANGED <<gameLoop, conns, sent>>

\* checkScoring on the state with the ball moved to ballX.
CallCheckScoring(ballX) ==
    /\ LET s == [state EXCEPT !.ballX = ballX]
       IN  last' = [op |-> "checkScoring", who |-> NULL, y |-> ballX,
                    pre |-> s, ret |-> checkScoring(s)]
    /\ UNCHANGED <<state, gameLoop, conns, sent>>

NextPhysics ==
    \/ CallPhysicsTick
    \/ \E angle \in ServeAngles : CallStartBall(angle)
    \/ \E ballX \in ScoringInputs : CallCheckScoring(ballX)

SpecPhysics == InitPhysics /\ [][NextPhysics]_vars

UpperCase ==
    <<"A", "B", "C", "D", "E", "F", "G", "H", "I", "J", "K", "L", "M",
      "N", "O", "P", "Q", "R", "S", "T", "U", "V", "W", "X", "Y", "Z">>

LowerCase ==
    <<"a", "b", "c", "d", "e", "f", "g", "h", "i", "j", "k", "l", "m",
      "n", "o", "p", "q", "r", "s", "t", "u", "v", "w", "x", "y", "z">>

Digits == {"0", "1", "2", "3", "4", "5", "6", "7", "8", "9"}

\* String.prototype.toLowerCase
toLowerCase(str) ==
    [i \in 1..Len(str) |->
        IF \E k \in 1..Len(UpperCase) : UpperCase[k] = str[i]
        THEN LowerCase[CHOOSE k \in 1..Len(UpperCase) : UpperCase[k] = str[i]]
        ELSE str[i]]

----------------------------------------------------------------------------
(* src/lib/party/matchmakerLogic.ts.  In the specifications of the         *)
(* matchmaker the variable state holds a MatchmakerState.                  *)

createMatchmakerState == [queue |-> <<>>, activeUsernames |-> {}]

isUsernameTaken(s, username) == toLowerCase(username) \in s.activeUsernames

joinQueueCaseSensitive(s, connectionId, username, now) ==
    IF username \in s.activeUsernames
    THEN [success |-> FALSE, state |-> s, position |-> NULL,
          error |-> "USERNAME_TAKEN"]
    ELSE LET player == [connectionId |-> connectionId, username |-> username,
                        joinedAt |-> now]
             newQueue == Append(s.queue, player)
         IN  [success |-> TRUE,
              state |-> [queue |-> newQueue,
                         activeUsernames |->
                             s.activeUsernames \cup {toLowerCase(username)}],
              position |-> Len(newQueue),
              error |-> NULL]

joinQueuePrepends(s, connectionId, username, now) ==
    LET normalizedUsername == toLowerCase(username)
    IN  IF normalizedUsername \in s.activeUsernames
        THEN [success |-> FALSE, state |-> s, position |-> NULL,
              error |-> "USERNAME_TAKEN"]
        ELSE LET player == [connectionId |-> connectionId, username |-> username,
                            joinedAt |-> now]
                 newQueue == <<player>> \o s.queue
             IN  [success |-> TRUE,
                  state |-> [queue |-> newQueue,
                             activeUsernames |->
                                 s.activeUsernames \cup {normalizedUsername}],
                  position |-> Len(newQueue),
                  error |-> NULL]

\* now is Date.now().  A field the result does not have is NULL.
joinQueue(s, connectionId, username, now) ==
    LET normalizedUsername == toLowerCase(username)
    IN  IF normalizedUsername \in s.activeUsernames
        THEN [success |-> FALSE, state |-> s, position |-> NULL,
              error |-> "USERNAME_TAKEN"]
        ELSE LET player == [connectionId |-> connectionId, username |-> username,
                            joinedAt |-> now]
                 newQueue == Append(s.queue, player)
             IN  [success |-> TRUE,
                  state |-> [queue |-> newQueue,
                             activeUsernames |->
                                 s.activeUsernames \cup {normalizedUsername}],
                  position |-> Len(newQueue),
                  error |-> NULL]

IsQueued(s, connectionId) ==
    \E i \in 1..Len(s.queue) : s.queue[i].connectionId = connectionId

\* state.queue.findIndex((p) => p.connectionId === connectionId), counted
\* from 1, for a queued connection.
QueueIndex(s, connectionId) ==
    CHOOSE i \in 1..Len(s.queue) :
        /\ s.queue[i].connectionId = connectionId
        /\ \A j \in 1..(i - 1) : s.queue[j].connectionId # connectionId

leaveQueue(s, connectionId) ==
    IF ~IsQueued(s, connectionId) THEN s
    ELSE LET player == s.queue[QueueIndex(s, connectionId)]
         IN  [queue |-> SelectSeq(s.queue,
                                  LAMBDA p : p.connectionId # connectionId),
              activeUsernames |->
                  s.activeUsernames \ {toLowerCase(player.username)}]

freeUsernameCaseSensitive(s, username) ==
    [s EXCEPT !.activeUsernames = s.activeUsernames \ {username}]

freeUsername(s, username) ==
    [s EXCEPT !.activeUsernames = s.activeUsernames \ {toLowerCase(username)}]

findMatchNewestFirst(s, gameRoomId) ==
    IF Len(s.queue) < 2 THEN [state |-> s, match |-> NULL]
    ELSE LET n == Len(s.queue)
         IN  [state |-> [queue |-> SubSeq(s.queue, 1, n - 2),
                         activeUsernames |-> s.activeUsernames],
              match |-> [player1 |-> s.queue[n], player2 |-> s.queue[n - 1],
                         gameRoomId |-> gameRoomId]]

findMatchFreesNames(s, gameRoomId) ==
    IF Len(s.queue) < 2 THEN [state |-> s, match |-> NULL]
    ELSE [state |-> [queue |-> SubSeq(s.queue, 3, Len(s.queue)),
                     activeUsernames |->
                         s.activeUsernames \
                             {toLowerCase(s.queue[1].username),
                              toLowerCase(s.queue[2].username)}],
          match |-> [player1 |-> s.queue[1], player2 |-> s.queue[2],
                     gameRoomId |-> gameRoomId]]

\* gameRoomId is the value generateGameRoomId() returns.
findMatch(s, gameRoomId) ==
    IF Len(s.queue) < 2 THEN [state |-> s, match |-> NULL]
    ELSE [state |-> [queue |-> SubSeq(s.queue, 3, Len(s.queue)),
                     activeUsernames |-> s.activeUsernames],
          match |-> [player1 |-> s.queue[1], player2 |-> s.queue[2],
                     gameRoomId |-> gameRoomId]]

getQueuePosition(s, connectionId) ==
    IF IsQueued(s, connectionId) THEN QueueIndex(s, connectionId) ELSE -1

----------------------------------------------------------------------------
(* Sequences of calls of the functions of matchmakerLogic.ts on a new      *)
(* matchmaker state.                                                       *)

\* joinQueue is called while the queue is shorter than MaxQueue.
MaxQueue == 4

QueueConns == 1..MaxQueue

Ann == <<"A", "n", "n">>
ANN == <<"A", "N", "N">>
Bob == <<"B", "o", "b">>
Cyd == <<"C", "y", "d">>
Dee_1 == <<"D", "e", "e", "_", "1">>

\* The usernames connection c joins with.
QueueUsernames(c) ==
    CASE c = 1 -> {Ann}
      [] c = 2 -> {ANN, Bob}
      [] c = 3 -> {Cyd}
      [] OTHER -> {Dee_1}

\* The usernames freeUsername is called with.
FreedUsernames == {ANN, Bob}

\* The values Date.now() returns; the program stores joinedAt and never
\* reads it.
Times == {1}

\* The values generateGameRoomId() returns.
GameRoomIds == {"game-a", "game-b"}

\* The record of a call: its arguments, the state it was given and what it
\* returned.
QueueCall(op, c, username, ret) ==
    [op |-> op, conn |-> c, username |-> username, pre |-> state, ret |-> ret]

InitQueue ==
    /\ state = createMatchmakerState
    /\ gameLoop = FALSE
    /\ conns = [c \in Conns |-> "fresh"]
    /\ sent = <<>>
    /\ last = [op |-> "init", conn |-> 0, username |-> <<>>,
               pre |-> createMatchmakerState, ret |-> NULL]

CallJoinQueue(c, username, now) ==
    /\ Len(state.queue) < MaxQueue
    /\ LET result == joinQueue(state, c, username, now)
       IN  /\ state' = result.state
           /\ last' = QueueCall("joinQueue", c, username, result)
    /\ UNCHANGED <<gameLoop, conns, sent>>

CallLeaveQueue(c) ==
    /\ state' = leaveQueue(state, c)
    /\ last' = QueueCall("leaveQueue", c, <<>>, state')
    /\ UNCHANGED <<gameLoop, conns, sent>>

CallFreeUsername(username) ==
    /\ state' = freeUsername(state, username)
    /\ last' = QueueCall("freeUsername", 0, username, state')
    /\ UNCHANGED <<gameLoop, conns, sent>>

CallFindMatch(gameRoomId) ==
    /\ LET result == findMatch(state, gameRoomId)
       IN  /\ state' = result.state
           /\ last' = QueueCall("findMatch", 0, <<>>, result)
    /\ UNCHANGED <<gameLoop, conns, sent>>

NextQueue ==
    \/ \E c \in QueueConns : \E username \in QueueUsernames(c), now \in Times :
          CallJoinQueue(c, username, now)
    \/ \E c \in QueueConns : CallLeaveQueue(c)
    \/ \E username \in FreedUsernames : CallFreeUsername(username)
    \/ \E gameRoomId \in GameRoomIds : CallFindMatch(gameRoomId)

SpecQueue == InitQueue /\ [][NextQueue]_vars

----------------------------------------------------------------------------
(* party/game.ts, class MatchmakerServer.  sent and conns are the          *)
(* matchmaker room's; last is [op, conn, username, pre, paired, held].      *)
(* paired holds the lower-cased usernames of the players tryMatch has      *)
(* paired and no freeUsernames request has named since; held holds those   *)
(* of them that were in the active set when findMatch was given the queue.  *)

\* USERNAME_PATTERN = /^[a-zA-Z0-9_]{3,15}$/ (constants.ts), tested on str.
USERNAME_PATTERN(str) ==
    /\ Len(str) >= 3
    /\ Len(str) <= 15
    /\ \A i \in 1..Len(str) :
          \/ \E k \in 1..Len(LowerCase) : str[i] \in {LowerCase[k], UpperCase[k]}
          \/ str[i] \in Digits
          \/ str[i] = "_"

An == <<"A", "n">>
Ann_bang == <<"A", "n", "n", "!">>

\* The usernames the JOIN_QUEUE messages of connection c carry.
JoinUsernames(c) ==
    QueueUsernames(c) \cup (IF c = 3 THEN {An, Ann_bang} ELSE {})

\* The usernames arrays of the freeUsernames requests.
RequestUsernames == {<<ANN>>, <<Bob, Cyd>>}

\* this.room.getConnection(id) finds a connection.
Connected(c) == conns[c] = "open"

MatchmakerCall(op, c, username, paired, held) ==
    [op |-> op, conn |-> c, username |-> username, pre |-> state,
     paired |-> paired, held |-> held]

\* An event that pairs nobody and frees no name.
MatchmakerEvent(op, c, username) ==
    MatchmakerCall(op, c, username, last.paired, last.held)

InitMatchmaker ==
    /\ state = createMatchmakerState
    /\ gameLoop = FALSE
    /\ conns = [c \in Conns |-> "fresh"]
    /\ sent = <<>>
    /\ last = [op |-> "init", conn |-> 0, username |-> <<>>,
               pre |-> createMatchmakerState, paired |-> {}, held |-> {}]

\* broadcastQueueUpdate() on the state s.
broadcastQueueUpdate(s) ==
    LET updates == [i \in 1..Len(s.queue) |->
                       Msg("QUEUE_UPDATE", s.queue[i].connectionId,
                           <<i, Len(s.queue)>>)]
    IN  SelectSeq(updates, LAMBDA m : Connected(m.to))

matchFoundToFirstOnly(match) ==
    IF Connected(match.player1.connectionId)
    THEN <<Msg("MATCH_FOUND", match.player1.connectionId,
               <<match.gameRoomId, match.player2.username>>)>>
    ELSE <<>>

\* The MATCH_FOUND messages of tryMatch().
matchFound(match) ==
    (IF Connected(match.player1.connectionId)
     THEN <<Msg("MATCH_FOUND", match.player1.connectionId,
                <<match.gameRoomId, match.player2.username>>)>>
     ELSE <<>>)
    \o (IF Connected(match.player2.connectionId)
        THEN <<Msg("MATCH_FOUND", match.player2.connectionId,
                   <<match.gameRoomId, match.player1.username>>)>>
        ELSE <<>>)

MatchmakerOnConnect(c) ==
    /\ conns[c] = "fresh"
    /\ \A d \in Conns : d < c => conns[d] # "fresh"
    /\ conns' = [conns EXCEPT ![c] = "open"]
    /\ sent' = <<Msg("QUEUE_UPDATE", c, <<0, Len(state.queue)>>)>>
    /\ last' = MatchmakerEvent("connect", c, <<>>)
    /\ UNCHANGED <<state, gameLoop>>

handleJoinQueueWithoutMatch(c, username, now, gameRoomId) ==
    /\ Connected(c)
    /\ IF ~USERNAME_PATTERN(username)
       THEN /\ sent' = <<Msg("ERROR", c, <<"Invalid username">>)>>
            /\ UNCHANGED state
       ELSE LET result == joinQueue(state, c, username, now)
            IN  IF ~result.success
                THEN /\ sent' = <<Msg("USERNAME_TAKEN", c, <<username>>)>>
                     /\ UNCHANGED state
                ELSE /\ state' = result.state
                     /\ sent' = <<Msg("QUEUE_JOINED", c, <<result.position>>)>>
    /\ last' = MatchmakerEvent("JOIN_QUEUE", c, username)
    /\ UNCHANGED <<gameLoop, conns>>

\* handleJoinQueue(sender, username) and the tryMatch() it ends in.
handleJoinQueue(c, username, now, gameRoomId) ==
    /\ Connected(c)
    /\ IF ~USERNAME_PATTERN(username)
       THEN /\ sent' = <<Msg("ERROR", c, <<"Invalid username">>)>>
            /\ last' = MatchmakerEvent("JOIN_QUEUE", c, username)
            /\ UNCHANGED state
       ELSE LET result == joinQueue(state, c, username, now)
                found == findMatch(result.state, gameRoomId)
                paired == Len(result.state.queue) >= 2
            IN  IF ~result.success
                THEN /\ sent' = <<Msg("USERNAME_TAKEN", c, <<username>>)>>
                     /\ last' = MatchmakerEvent("JOIN_QUEUE", c, username)
                     /\ UNCHANGED state
                ELSE /\ state' = found.state
                     /\ sent' = <<Msg("QUEUE_JOINED", c, <<result.position>>)>>
                                \o (IF paired THEN matchFound(found.match) ELSE <<>>)
                                \o broadcastQueueUpdate(found.state)
                     /\ last' =
                            IF paired
                            THEN LET names ==
                                         {toLowerCase(found.match.player1.username),
                                          toLowerCase(found.match.player2.username)}
                                 IN  MatchmakerCall("JOIN_QUEUE", c, username,
                                         last.paired \cup names,
                                         last.held \cup
                                             (names \cap result.state.activeUsernames))
                            ELSE MatchmakerEvent("JOIN_QUEUE", c, username)
    /\ UNCHANGED <<gameLoop, conns>>

\* A JOIN_QUEUE whose username is absent or no string: the pattern's test
\* coerces it to a string of letters or digits ("undefined", "null", "12345")
\* and passes, joinQueue throws on username.toLowerCase(), and onMessage
\* catches it.  Also a message that JSON.parse rejects.
OnThrowingMessage(c) ==
    /\ Connected(c)
    /\ sent' = <<Msg("ERROR", c, <<"Invalid message format">>)>>
    /\ last' = MatchmakerEvent("throws", c, <<>>)
    /\ UNCHANGED <<state, gameLoop, conns>>

handleLeaveQueue(c) ==
    /\ Connected(c)
    /\ state' = leaveQueue(state, c)
    /\ sent' = broadcastQueueUpdate(state')
    /\ last' = MatchmakerEvent("LEAVE_QUEUE", c, <<>>)
    /\ UNCHANGED <<gameLoop, conns>>

MatchmakerOnClose(c) ==
    /\ Connected(c)
    /\ conns' = [conns EXCEPT ![c] = "closed"]
    /\ state' = leaveQueue(state, c)
    /\ sent' = SelectSeq(broadcastQueueUpdate(state'), LAMBDA m : m.to # c)
    /\ last' = MatchmakerEvent("close", c, <<>>)
    /\ UNCHANGED gameLoop

RECURSIVE freeUsernames(_, _)
\* body.usernames.forEach((username) => freeUsername(this.state, username))
freeUsernames(s, usernames) ==
    IF usernames = <<>> THEN s
    ELSE freeUsernames(freeUsername(s, Head(usernames)), Tail(usernames))

\* onRequest(request) for a POST with the action freeUsernames.
OnRequest(usernames) ==
    /\ state' = freeUsernames(state, usernames)
    /\ sent' = <<>>
    /\ LET freed == {toLowerCase(usernames[i]) : i \in 1..Len(usernames)}
       IN  last' = MatchmakerCall("freeUsernames", 0, <<>>,
                                  last.paired \ freed, last.held \ freed)
    /\ UNCHANGED <<gameLoop, conns>>

NextMatchmaker ==
    \/ \E c \in Conns : MatchmakerOnConnect(c)
    \/ \E c \in Conns : \E username \in JoinUsernames(c), now \in Times,
                             gameRoomId \in GameRoomIds :
          handleJoinQueue(c, username, now, gameRoomId)
    \/ \E c \in Conns : OnThrowingMessage(c)
    \/ \E c \in Conns : handleLeaveQueue(c)
    \/ \E c \in Conns : MatchmakerOnClose(c)
    \/ \E usernames \in RequestUsernames : OnRequest(usernames)

SpecMatchmaker == InitMatchmaker /\ [][NextMatchmaker]_vars

----------------------------------------------------------------------------
(* Properties.                                                             *)

\* The side a role plays: the host is player1, a guest player2.
SideOf(role) == IF role = "host" THEN "player1" ELSE "player2"

InMatch(status) == status \in {"countdown", "playing", "paused"}

Ball(gs) == <<gs.ballX, gs.ballY, gs.ballVelX, gs.ballVelY>>

\* The players of s other than connectionId.
Others(s, connectionId) ==
    SelectSeq(s.players, LAMBDA p : p.id # connectionId)

\* y clamped to [PADDLE_HEIGHT / 2, ARENA_HEIGHT - PADDLE_HEIGHT / 2].
InPaddleRange(y) ==
    /\ IsNum(y)
    /\ y >= U(PADDLE_HEIGHT) \div 2
    /\ y <= U(ARENA_HEIGHT) - U(PADDLE_HEIGHT) \div 2

\* C1 (Spec): when one of the two players disconnects (connection close or
\* LEAVE) while the status is countdown, playing or paused, the status
\* becomes finished, the winner is the remaining player's side and the
\* timer is not running afterwards.
C1_DisconnectForfeits ==
    (/\ last.op \in {"close", "LEAVE"}
     /\ Len(last.pre.players) = 2
     /\ HasPlayer(last.pre, last.conn)
     /\ InMatch(last.pre.gameState.status))
    => /\ state.gameState.status = "finished"
       /\ Len(state.players) = 1
       /\ state.gameState.winner = SideOf(state.players[1].role)
       /\ ~gameLoop

\* C2 (SpecLogic): removePlayer(state, id) for a player of a two-player room
\* in status countdown or playing returns the state without exactly that
\* player, with status finished and the remaining player's side as winner,
\* and with the scores, ball and paddles unchanged; for an id that is no
\* player it returns the state unchanged.
C2_RemovePlayer ==
    last.op = "removePlayer" =>
        LET pre == last.pre
            gs == state.gameState
        IN  IF ~HasPlayer(pre, last.conn) THEN state = pre
            ELSE (Len(pre.players) = 2
                  /\ pre.gameState.status \in {"countdown", "playing"})
                 => /\ state.players = Others(pre, last.conn)
                    /\ Len(state.players) = 1
                    /\ gs.status = "finished"
                    /\ state.players[1].role = "host" => gs.winner = "player1"
                    /\ state.players[1].role = "guest" => gs.winner = "player2"
                    /\ gs.score1 = pre.gameState.score1
                    /\ gs.score2 = pre.gameState.score2
                    /\ Ball(gs) = Ball(pre.gameState)
                    /\ gs.paddle1Y = pre.gameState.paddle1Y
                    /\ gs.paddle2Y = pre.gameState.paddle2Y

C2_Witness ==
    /\ last.op = "removePlayer"
    /\ Len(last.pre.players) = 2
    /\ last.pre.players[1].role = "host"
    /\ last.pre.players[2].id = last.conn
    /\ last.pre.gameState.status = "playing"
    /\ state.gameState.status = "finished"
    /\ state.gameState.winner = "player1"

\* C3 (SpecLogic): when removePlayer removes the only player of a room in
\* status countdown or playing, the winner is left unset (null).
C3_EmptyRoomHasNoWinner ==
    (/\ last.op = "removePlayer"
     /\ Len(last.pre.players) = 1
     /\ HasPlayer(last.pre, last.conn)
     /\ last.pre.gameState.status \in {"countdown", "playing"})
    => state.gameState.winner = NULL

\* C4 (SpecPlayers): after any sequence of addPlayer and removePlayer calls
\* the room has at most two players; addPlayer on a room with two players
\* returns the state unchanged, on an empty room it adds a host and on a
\* room with one player it adds a guest.
C4_AtMostTwoPlayers ==
    /\ Len(state.players) <= 2
    /\ last.op = "addPlayer" =>
        LET pre == last.pre
            n == Len(pre.players)
        IN  /\ n >= 2 => state = pre
            /\ n < 2 =>
                /\ Len(state.players) = n + 1
                /\ SubSeq(state.players, 1, n) = pre.players
                /\ state.players[n + 1].id = last.conn
                /\ state.players[n + 1].role = (IF n = 0 THEN "host" ELSE "guest")
                /\ state.gameState = pre.gameState

C4_Witness ==
    /\ last.op = "addPlayer"
    /\ Len(last.pre.players) = 2
    /\ last.pre.players[1].role = "guest"
    /\ ~HasPlayer(last.pre, last.conn)
    /\ state = last.pre

\* C5 (Spec): in every reachable state of a game room paddle1Y and paddle2Y
\* lie in [10, 90], whatever y the PADDLE_MOVE messages carry, and a
\* PADDLE_MOVE whose y is in that range sets the sender's paddle to y.
C5_PaddlesInRange ==
    /\ InPaddleRange(state.gameState.paddle1Y)
    /\ InPaddleRange(state.gameState.paddle2Y)
    /\ (/\ last.op = "PADDLE_MOVE"
        /\ InPaddleRange(last.y)
        /\ HasPlayer(last.pre, last.conn))
       => LET gs == state.gameState
          IN  IF getPlayer(last.pre, last.conn).role = "host"
              THEN gs.paddle1Y = last.y ELSE gs.paddle2Y = last.y

\* C6 (SpecLogic): updatePaddlePosition(state, id, y) writes y, clamped to
\* [10, 90], to paddle1Y when id is the host and to paddle2Y when id is a
\* guest, and changes nothing else; for an id that is no player it returns
\* the state unchanged.
C6_UpdatePaddleFrame ==
    last.op = "updatePaddlePosition" =>
        LET pre == last.pre
            gs == state.gameState
            clamped == IF last.y < U(10) THEN U(10)
                       ELSE IF last.y > U(90) THEN U(90) ELSE last.y
        IN  IF ~HasPlayer(pre, last.conn) THEN state = pre
            ELSE IF getPlayer(pre, last.conn).role = "host"
            THEN /\ state = [pre EXCEPT !.gameState.paddle1Y = gs.paddle1Y]
                 /\ IsNum(last.y) => gs.paddle1Y = clamped
            ELSE /\ state = [pre EXCEPT !.gameState.paddle2Y = gs.paddle2Y]
                 /\ IsNum(last.y) => gs.paddle2Y = clamped

C6_Witness ==
    /\ last.op = "updatePaddlePosition"
    /\ HasPlayer(last.pre, last.conn)
    /\ getPlayer(last.pre, last.conn).role = "guest"
    /\ last.y = U(120)
    /\ last.pre.gameState.paddle2Y = U(50)
    /\ state.gameState.paddle2Y = U(90)

\* C7 (SpecLogic): startCountdown on a room with two players sets status to
\* countdown and countdown to 3 and changes nothing else; on a room with
\* fewer than two players it returns the state unchanged.
C7_StartCountdown ==
    last.op = "startCountdown" =>
        LET pre == last.pre
        IN  IF Len(pre.players) = 2
            THEN state = [pre EXCEPT !.gameState.status = "countdown",
                                     !.gameState.countdown = 3]
            ELSE state = pre

C7_Witness ==
    /\ last.op = "startCountdown"
    /\ Len(last.pre.players) = 2
    /\ last.pre.gameState.status = "waiting"
    /\ state.gameState.status = "countdown"
    /\ state.gameState.countdown = 3

\* C8 (SpecCountdown): from startCountdown on a new room, with nothing but
\* ticks, countdown is 3 after ticks 1-59, 2 after ticks 60-119 and 1 after
\* ticks 120-179, the status is countdown for the first 179 ticks, and the
\* 180th tick sets status playing, countdown 0 and serves the ball.
C8_CountdownTakes180Ticks ==
    LET gs == state.gameState
        n == state.tickCount
    IN  /\ n \in 0..59 => gs.status = "countdown" /\ gs.countdown = 3
        /\ n \in 60..119 => gs.status = "countdown" /\ gs.countdown = 2
        /\ n \in 120..179 => gs.status = "countdown" /\ gs.countdown = 1
        /\ n >= 180 => gs.status = "playing" /\ gs.countdown = 0
        /\ n = 180 =>
            /\ last.op = "tick"
            /\ last.pre.gameState.status = "countdown"
            /\ gs.ballX = U(50)
            /\ gs.ballY = U(50)
            /\ gs.ballVelX # 0

C8_Witness ==
    /\ last.op = "tick"
    /\ state.tickCount = 180
    /\ last.pre.gameState.countdown = 1
    /\ state.gameState.status = "playing"
    /\ state.gameState.ballVelX # 0

\* C9 (SpecLogic), as amended: when status is waiting, paused or finished,
\* tick returns the state unchanged, tick counter included.
C9_IdleTickChangesNothing ==
    (/\ last.op = "tick"
     /\ last.pre.gameState.status \in {"waiting", "paused", "finished"})
    => state = last.pre

\* C9 (SpecLogic), as claimed: when status is waiting, paused or finished,
\* tick leaves the game state and the players unchanged and increments the
\* tick counter by one.
C9_IdleTickCounts ==
    (/\ last.op = "tick"
     /\ last.pre.gameState.status \in {"waiting", "paused", "finished"})
    => /\ state.gameState = last.pre.gameState
       /\ state.players = last.pre.players
       /\ state.tickCount = last.pre.tickCount + 1

C9_Witness ==
    /\ last.op = "tick"
    /\ last.pre.gameState.status = "paused"
    /\ last.pre.gameState.ballVelX # 0
    /\ last.pre.tickCount = 179
    /\ state.tickCount = 179

\* C10 (SpecLogic): handleScoring(state, scorer) adds one to the scorer's
\* score and leaves the other score unchanged; when the scorer's new score
\* is 7 it sets status finished and winner to the scorer and leaves the
\* ball's position and velocity as they were.
C10_HandleScoring ==
    last.op = "handleScoring" =>
        LET pre == last.pre.gameState
            gs == state.gameState
            new == IF last.who = "player1" THEN gs.score1 ELSE gs.score2
        IN  /\ last.who = "player1" =>
                gs.score1 = pre.score1 + 1 /\ gs.score2 = pre.score2
            /\ last.who = "player2" =>
                gs.score2 = pre.score2 + 1 /\ gs.score1 = pre.score1
            /\ new = 7 =>
                /\ gs.status = "finished"
                /\ gs.winner = last.who
                /\ Ball(gs) = Ball(pre)

C10_Witness ==
    /\ last.op = "handleScoring"
    /\ last.who = "player2"
    /\ last.pre.gameState.status = "playing"
    /\ last.pre.gameState.ballVelX # 0
    /\ state.gameState.score2 = 7
    /\ state.gameState.winner = "player2"

Advanced(gs) ==
    checkPaddleCollision(checkWallCollision(updateBallPosition(
        [ballX |-> gs.ballX, ballY |-> gs.ballY,
         ballVelX |-> gs.ballVelX, ballVelY |-> gs.ballVelY,
         paddle1Y |-> gs.paddle1Y, paddle2Y |-> gs.paddle2Y])))

Points(gs) == gs.score1 + gs.score2

\* C13 (SpecLogic): a tick in status playing raises score1 + score2 by one
\* when the ball's centre, after advancing and collision resolution, is
\* strictly left of -BALL_RADIUS or strictly right of ARENA_WIDTH +
\* BALL_RADIUS, and leaves both scores unchanged otherwise; after a point
\* that does not end the match the ball is at the centre in the same tick,
\* and the tick that follows scores nothing.
C13_OnePointPerExit ==
    (last.op = "tick" /\ last.pre.gameState.status = "playing") =>
        LET pre == last.pre.gameState
            gs == state.gameState
            x == Advanced(pre).ballX
            beyond == x < -U(BALL_RADIUS) \/ x > U(ARENA_WIDTH) + U(BALL_RADIUS)
        IN  /\ gs.score1 >= pre.score1
            /\ gs.score2 >= pre.score2
            /\ Points(gs) = Points(pre) + (IF beyond THEN 1 ELSE 0)
            /\ (beyond /\ gs.status # "finished") =>
                /\ gs.ballX = U(50)
                /\ gs.ballY = U(50)
                /\ \A d \in Sides \X ServeAngles :
                       LET after == tick(state, d[1], d[2]).gameState
                       IN  /\ after.score1 = gs.score1
                           /\ after.score2 = gs.score2

C13_Witness ==
    /\ last.op = "tick"
    /\ last.pre.gameState.status = "playing"
    /\ last.pre.gameState.ballX < 0
    /\ last.pre.gameState.score2 = 2
    /\ state.gameState.score2 = 3
    /\ state.gameState.score1 = last.pre.gameState.score1
    /\ state.gameState.status = "playing"
    /\ state.gameState.ballX = U(50)

\* C12 (SpecMatch): over every sequence of game-room events (connects,
\* disconnects, messages, ticks) no event lowers score1 or score2, neither
\* score exceeds 7, the two are never both 7, and whenever a score is 7 the
\* status is finished and the winner is that side.
C12_ScoresOnlyGrow ==
    LET gs == state.gameState
        pre == last.pre.gameState
    IN  /\ gs.score1 >= pre.score1
        /\ gs.score2 >= pre.score2
        /\ gs.score1 <= 7
        /\ gs.score2 <= 7
        /\ ~(gs.score1 = 7 /\ gs.score2 = 7)
        /\ gs.score1 = 7 => gs.status = "finished" /\ gs.winner = "player1"
        /\ gs.score2 = 7 => gs.status = "finished" /\ gs.winner = "player2"

C12_Witness ==
    /\ last.op = "timer"
    /\ last.pre.gameState.status = "playing"
    /\ last.pre.gameState.score1 = 6
    /\ last.pre.gameState.score2 = 6
    /\ state.gameState.score1 = 7
    /\ state.gameState.score2 = 6
    /\ state.gameState.status = "finished"
    /\ state.gameState.winner = "player1"
    /\ ~gameLoop

\* a and b are the same string up to the case of their letters.
SameIgnoringCase(a, b) ==
    /\ Len(a) = Len(b)
    /\ \A i \in 1..Len(a) :
          \/ a[i] = b[i]
          \/ \E k \in 1..Len(UpperCase) :
                {a[i], b[i]} = {UpperCase[k], LowerCase[k]}

\* C14 (SpecQueue): joinQueue(state, id, name) fails exactly when the active
\* set holds name up to letter case, which is when isUsernameTaken(state,
\* name) is true; a failure carries the error USERNAME_TAKEN and returns the
\* state it was given.
C14_UsernameTaken ==
    last.op = "joinQueue" =>
        LET pre == last.pre
            r == last.ret
            collides == \E n \in pre.activeUsernames :
                            SameIgnoringCase(n, last.username)
        IN  /\ r.success = ~collides
            /\ isUsernameTaken(pre, last.username) = collides
            /\ r.success => r.error = NULL
            /\ ~r.success =>
                /\ r.error = "USERNAME_TAKEN"
                /\ r.state = pre
                /\ state = pre

C14_Witness ==
    /\ last.op = "joinQueue"
    /\ last.username = ANN
    /\ Len(last.pre.queue) = 1
    /\ last.pre.queue[1].username = Ann
    /\ last.pre.activeUsernames = {toLowerCase(Ann)}
    /\ ~last.ret.success
    /\ last.ret.error = "USERNAME_TAKEN"
    /\ state = last.pre

\* C15 (SpecQueue): a successful joinQueue(state, id, name) appends the
\* player to the tail of the queue and keeps the entries before it, adds
\* the lower-cased name and nothing else to the active set, and returns the
\* new queue length as position, which is getQueuePosition(newState, id)
\* when id was not queued before; getQueuePosition is the 1-based index of
\* the connection's first entry, or -1 when it has none.
C15_JoinAppends ==
    /\ (last.op = "joinQueue" /\ last.ret.success) =>
        LET pre == last.pre
            n == Len(pre.queue)
        IN  /\ Len(state.queue) = n + 1
            /\ SubSeq(state.queue, 1, n) = pre.queue
            /\ state.queue[n + 1].connectionId = last.conn
            /\ state.queue[n + 1].username = last.username
            /\ state.queue[n + 1].joinedAt \in Times
            /\ \E lower \in state.activeUsernames :
                  /\ SameIgnoringCase(lower, last.username)
                  /\ \A i \in 1..Len(lower) :
                        \A k \in 1..Len(UpperCase) : lower[i] # UpperCase[k]
                  /\ lower \notin pre.activeUsernames
                  /\ state.activeUsernames = pre.activeUsernames \cup {lower}
            /\ last.ret.position = n + 1
            /\ ~IsQueued(pre, last.conn) =>
                  getQueuePosition(state, last.conn) = last.ret.position
    /\ last.op # "init" =>
        \A c \in QueueConns :
            LET pos == getQueuePosition(state, c)
            IN  IF \A i \in 1..Len(state.queue) : state.queue[i].connectionId # c
                THEN pos = -1
                ELSE /\ pos \in 1..Len(state.queue)
                     /\ state.queue[pos].connectionId = c
                     /\ \A i \in 1..(pos - 1) : state.queue[i].connectionId # c

C15_Witness ==
    /\ last.op = "joinQueue"
    /\ last.ret.success
    /\ last.username = ANN
    /\ Len(last.pre.queue) = 2
    /\ ~IsQueued(last.pre, last.conn)
    /\ last.ret.position = 3
    /\ getQueuePosition(state, last.conn) = 3
    /\ getQueuePosition(state, 4) = -1

\* C16 (SpecQueue): leaveQueue(state, id) for a queued connection removes
\* its player from the queue, keeps the order of the others, and removes
\* that player's lower-cased username from the active set, so that joinQueue
\* with that name succeeds afterwards; for a connection that is not queued
\* it returns the state unchanged; and leaveQueue of the connection of a
\* successful joinQueue, called on its result, gives back the queue and the
\* active set joinQueue was called on.
C16_LeaveQueue ==
    /\ last.op = "leaveQueue" =>
        LET pre == last.pre
        IN  IF ~IsQueued(pre, last.conn) THEN state = pre
            ELSE /\ state.queue =
                        SelectSeq(pre.queue, LAMBDA p : p.connectionId # last.conn)
                 /\ \A i \in 1..Len(pre.queue) :
                        pre.queue[i].connectionId = last.conn =>
                            /\ toLowerCase(pre.queue[i].username)
                                   \notin state.activeUsernames
                            /\ \A now \in Times :
                                   joinQueue(state, last.conn,
                                             pre.queue[i].username, now).success
    /\ (last.op = "joinQueue" /\ last.ret.success) =>
        leaveQueue(state, last.conn) = last.pre

\* C17 (SpecQueue): findMatch on a queue of fewer than two players returns
\* no match and the state unchanged; otherwise it pairs the first queued
\* player as player1 with the second as player2, leaves the others in
\* their order and the active set as it was; on a queue of four a second
\* findMatch pairs the third with the fourth.
C17_FindMatchFifo ==
    last.op = "findMatch" =>
        LET pre == last.pre
            r == last.ret
            n == Len(pre.queue)
        IN  IF n < 2 THEN r.match = NULL /\ r.state = pre /\ state = pre
            ELSE /\ r.match.gameRoomId \in GameRoomIds
                 /\ r.match.player1 = pre.queue[1]
                 /\ r.match.player2 = pre.queue[2]
                 /\ Len(state.queue) = n - 2
                 /\ \A i \in 1..(n - 2) : state.queue[i] = pre.queue[i + 2]
                 /\ state.activeUsernames = pre.activeUsernames
                 /\ n = 4 =>
                       \A gameRoomId \in GameRoomIds :
                           LET second == findMatch(state, gameRoomId)
                           IN  /\ second.match.gameRoomId = gameRoomId
                               /\ second.match.player1 = pre.queue[3]
                               /\ second.match.player2 = pre.queue[4]
                               /\ second.state.queue = <<>>

C17_Witness ==
    /\ last.op = "findMatch"
    /\ Len(last.pre.queue) = 4
    /\ \A i \in 1..4 : last.pre.queue[i].connectionId = i
    /\ last.ret.match.player1.username = Ann
    /\ last.ret.match.player2.username = Bob
    /\ Len(state.queue) = 2
    /\ state.queue[1].username = Cyd
    /\ state.queue[2].username = Dee_1

\* C19 (SpecQueue): freeUsername(state, name) removes the lower-cased name
\* from the active set and nothing else, leaves the queue as it was even
\* when a queued player has that name, returns an equal state when the name
\* is not active, and afterwards joinQueue with that name in any letter
\* case succeeds.
C19_FreeUsername ==
    last.op = "freeUsername" =>
        LET pre == last.pre
            freed == {n \in pre.activeUsernames :
                         SameIgnoringCase(n, last.username)}
        IN  /\ state.queue = pre.queue
            /\ state.activeUsernames = pre.activeUsernames \ freed
            /\ freed = {} => state = pre
            /\ \A c \in QueueConns : \A username \in QueueUsernames(c) :
                  SameIgnoringCase(username, last.username) =>
                      \A now \in Times : joinQueue(state, c, username, now).success

C19_Witness ==
    /\ last.op = "freeUsername"
    /\ last.username = ANN
    /\ Len(last.pre.queue) = 2
    /\ last.pre.queue[1].username = Ann
    /\ toLowerCase(Ann) \in last.pre.activeUsernames
    /\ toLowerCase(Ann) \notin state.activeUsernames
    /\ state.queue = last.pre.queue
    /\ joinQueue(state, 2, ANN, 1).success

\* A joinQueue with a name that is n up to letter case fails with
\* USERNAME_TAKEN in the current state.
Blocked(n) ==
    /\ n \in state.activeUsernames
    /\ \A c \in Conns : \A username \in JoinUsernames(c), now \in Times :
          SameIgnoringCase(username, n) =>
              LET result == joinQueue(state, c, username, now)
              IN  ~result.success /\ result.error = "USERNAME_TAKEN"

\* C18 (SpecMatchmaker), for the names the pairing finds active: a paired
\* player's lower-cased username that is in the active set when findMatch
\* pairs the player stays there through every later JOIN_QUEUE, LEAVE_QUEUE
\* and disconnect of any connection, the paired players' own included, and
\* joinQueue with it fails with USERNAME_TAKEN, until a freeUsernames
\* request names it.
C18_HeldNamesStayActive ==
    \A n \in last.held : Blocked(n)

\* C18 (SpecMatchmaker), as claimed: once two players are paired, their
\* lower-cased usernames are in the active set, and joinQueue with either
\* fails with USERNAME_TAKEN, through every later JOIN_QUEUE, LEAVE_QUEUE
\* and disconnect, until a freeUsernames request that follows the pairing
\* names it.
C18_PairedNamesStayActive ==
    \A n \in last.paired : Blocked(n)

C18_Witness ==
    /\ last.op = "close"
    /\ last.conn = 1
    /\ last.held = {toLowerCase(Ann), toLowerCase(Bob)}
    /\ conns[2] = "closed"
    /\ state.queue = <<>>
    /\ state.activeUsernames = last.held
    /\ ~joinQueue(state, 2, ANN, 1).success

\* C20 (SpecMatchmaker): when a successful JOIN_QUEUE gives the queue a
\* second player, the handler sends MATCH_FOUND to the connection of each
\* of the two, both with the same gameRoomId and each with the other
\* player's username as opponent, and neither player is in the queue when
\* the handler returns.
C20_MatchFoundToBoth ==
    (/\ last.op = "JOIN_QUEUE"
     /\ USERNAME_PATTERN(last.username)
     /\ ~isUsernameTaken(last.pre, last.username)
     /\ Len(last.pre.queue) >= 1)
    => LET first == last.pre.queue[1]
           found == SelectSeq(sent, LAMBDA m : m.type = "MATCH_FOUND")
       IN  /\ Len(found) = 2
           /\ found[1].to = first.connectionId
           /\ found[1].val[2] = last.username
           /\ found[2].to = last.conn
           /\ found[2].val[2] = first.username
           /\ found[1].val[1] = found[2].val[1]
           /\ found[1].val[1] \in GameRoomIds
           /\ state.queue = <<>>
           /\ state.activeUsernames =
                  last.pre.activeUsernames \cup {toLowerCase(last.username)}

C20_Witness ==
    /\ last.op = "JOIN_QUEUE"
    /\ last.conn = 2
    /\ last.username = Bob
    /\ Len(last.pre.queue) = 1
    /\ last.pre.queue[1].connectionId = 1
    /\ Len(sent) = 3
    /\ sent[2] = Msg("MATCH_FOUND", 1, <<"game-b", Bob>>)
    /\ sent[3] = Msg("MATCH_FOUND", 2, <<"game-b", Ann>>)
    /\ state.queue = <<>>

\* C21 (Spec): a malformed message to a game room - text that does not
\* parse, an unknown type, or a PADDLE_MOVE whose y is absent or not a number
\* - leaves the room's state and timer as they were before the message.
C21_MalformedMessageKeepsState ==
    (\/ last.op = "ignored"
     \/ last.op = "PADDLE_MOVE" /\ ~IsNum(last.y))
    => /\ state = last.pre
       /\ gameLoop = last.preLoop

\* A message of the given type is among those the last handler sent.
Sent(type) == \E i \in 1..Len(sent) : sent[i].type = type

\* C22 (Spec): after every handler of a game room the tick timer is running
\* if and only if the status is countdown or playing.
C22_TimerRunsIffMatchRuns ==
    gameLoop <=> state.gameState.status \in {"countdown", "playing"}

C22_Witness ==
    /\ last.op = "RESUME"
    /\ last.pre.gameState.status = "paused"
    /\ ~last.preLoop
    /\ state.gameState.status = "playing"
    /\ gameLoop

\* C23 (Spec): OPPONENT_DISCONNECTED is sent only by the close or LEAVE of a
\* player that ends a match in progress: the status before the removal was
\* countdown or playing.
C23_OpponentDisconnectedOnlyOnForfeit ==
    Sent("OPPONENT_DISCONNECTED") =>
        /\ last.op \in {"close", "LEAVE"}
        /\ HasPlayer(last.pre, last.conn)
        /\ last.pre.gameState.status \in {"countdown", "playing"}

\* C25 (Spec): while the status is waiting the timer is not running, the
\* ball rests in the centre and fewer than two players are present; the
\* status leaves waiting only in the connect that makes the players two, and
\* that connect sets the status to countdown and the countdown to 3 and
\* starts the timer.
C25_WaitingUntilTwoPlayers ==
    LET gs == state.gameState
        starts == /\ gs.status = "countdown"
                  /\ gs.countdown = COUNTDOWN_SECONDS
                  /\ gameLoop
    IN  /\ gs.status = "waiting" =>
            /\ ~gameLoop
            /\ Ball(gs) = Ball(createInitialGameState)
            /\ Len(state.players) < 2
        /\ (last.pre.gameState.status = "waiting" /\ gs.status # "waiting") =>
            /\ last.op = "connect"
            /\ Len(last.pre.players) = 1
            /\ Len(state.players) = 2
            /\ starts
        /\ (/\ last.op = "connect"
            /\ last.pre.gameState.status = "waiting"
            /\ Len(state.players) = 2) => starts

C25_Witness ==
    /\ last.op = "connect"
    /\ last.conn = 3
    /\ last.pre.gameState.status = "waiting"
    /\ conns[1] = "closed"
    /\ Len(state.players) = 2
    /\ state.gameState.status = "countdown"
    /\ state.gameState.countdown = COUNTDOWN_SECONDS
    /\ gameLoop

\* C30 (Spec): in every reachable state of a game room no two players have
\* the same role.
C30_RolesDiffer ==
    \A i, j \in 1..Len(state.players) :
        i # j => state.players[i].role # state.players[j].role

\* C24 (SpecMatch): GAME_OVER is sent exactly by the timer fire whose tick
\* takes the status from playing to finished with a score of 7; it carries
\* the winner and the final score, is followed by one GAME_STATE, and the
\* timer is stopped; once the status is finished no timer fires and no
\* GAME_OVER is sent again.
C24_GameOverOnce ==
    LET gs == state.gameState
        pre == last.pre.gameState
        ends == /\ last.op = "timer"
                /\ pre.status = "playing"
                /\ gs.status = "finished"
    IN  /\ Sent("GAME_OVER") <=> ends
        /\ ends =>
            /\ sent = <<Msg("GAME_OVER", 0, <<gs.winner, gs.score1, gs.score2>>),
                        Msg("GAME_STATE", 0, <<gs>>)>>
            /\ \/ gs.score1 = WINNING_SCORE /\ gs.winner = "player1"
               \/ gs.score2 = WINNING_SCORE /\ gs.winner = "player2"
            /\ Points(gs) = Points(pre) + 1
            /\ ~gameLoop
        /\ gs.status = "finished" => ~gameLoop
        /\ pre.status = "finished" =>
            /\ last.op # "timer"
            /\ gs.status = "finished"
            /\ ~Sent("GAME_OVER")

C24_Witness ==
    /\ last.op = "timer"
    /\ last.preLoop
    /\ last.pre.gameState.score2 = WINNING_SCORE - 1
    /\ state.gameState.score2 = WINNING_SCORE
    /\ state.gameState.winner = "player2"
    /\ Sent("GAME_OVER")
    /\ ~gameLoop

\* The characters of the usernames the game-room specifications use.
Chars(username) ==
    CASE username = "Alice" -> <<"A", "l", "i", "c", "e">>
      [] username = "x!" -> <<"x", "!">>
      [] username = "Player1" -> <<"P", "l", "a", "y", "e", "r", "1">>
      [] username = "Player2" -> <<"P", "l", "a", "y", "e", "r", "2">>
      [] username = "Player3" -> <<"P", "l", "a", "y", "e", "r", "3">>

\* C26 (Spec), for the game room: every username in the room's player list
\* has 3 to 15 characters, all of them letters, digits or underscores.
C26_PlayerNamesValid ==
    \A i \in 1..Len(state.players) :
        USERNAME_PATTERN(Chars(state.players[i].username))

\* C26 (SpecMatchmaker), for the matchmaker: every username in the queue and
\* every name in the active set satisfies the username constraint, and a
\* JOIN_QUEUE whose username does not is answered with ERROR and leaves the
\* matchmaker state unchanged.
C26_QueueNamesValid ==
    /\ \A i \in 1..Len(state.queue) : USERNAME_PATTERN(state.queue[i].username)
    /\ \A n \in state.activeUsernames : USERNAME_PATTERN(n)
    /\ (last.op = "JOIN_QUEUE" /\ ~USERNAME_PATTERN(last.username)) =>
        /\ state = last.pre
        /\ Len(sent) = 1
        /\ sent[1].type = "ERROR"
        /\ sent[1].to = last.conn

SpeedOf(s) == Sqrt(s.ballVelX * s.ballVelX + s.ballVelY * s.ballVelY)

\* The speed v is the speed target up to the rounding of the products with
\* the cosine and the sine: at most target, and less by at most SpeedSlack.
SpeedIs(v, target) == v <= target /\ v >= target - SpeedSlack

\* The tick that produced the current state bounced the ball off a paddle.
HitPaddle ==
    /\ last.op = "physicsTick"
    /\ LET moved == checkWallCollision(updateBallPosition(last.pre))
       IN  checkPaddleCollision(moved) # moved

\* The tick that produced the current state bounced the ball off a wall.
HitWall ==
    /\ last.op = "physicsTick"
    /\ LET moved == updateBallPosition(last.pre)
       IN  checkWallCollision(moved) # moved

\* C27 (SpecPhysics): the ball's speed is never above BALL_MAX_SPEED; a tick
\* that bounces the ball off a paddle sets the speed to
\* min(previous speed + BALL_SPEED_INCREMENT, BALL_MAX_SPEED), which is more
\* than before unless the speed was at the maximum; every other tick, a wall
\* bounce included, leaves the speed as it was; every serve sets it to
\* BALL_INITIAL_SPEED.
C27_BallSpeed ==
    LET before == SpeedOf(last.pre)
        after == SpeedOf(state)
    IN  /\ state.ballVelX * state.ballVelX + state.ballVelY * state.ballVelY
               <= BALL_MAX_SPEED * BALL_MAX_SPEED
        /\ HitPaddle =>
            /\ SpeedIs(after, Min(before + BALL_SPEED_INCREMENT, BALL_MAX_SPEED))
            /\ before < BALL_MAX_SPEED - SpeedSlack => after > before
        /\ (last.op = "physicsTick" /\ ~HitPaddle) =>
            /\ Abs(state.ballVelX) = Abs(last.pre.ballVelX)
            /\ Abs(state.ballVelY) = Abs(last.pre.ballVelY)
        /\ last.op = "startBall" => SpeedIs(after, BALL_INITIAL_SPEED)

\* A paddle hit at the maximum speed, after a rally that brought the speed
\* up from the serve's.
C27_Witness ==
    /\ HitPaddle
    /\ SpeedOf(last.pre) = BALL_MAX_SPEED
    /\ SpeedOf(state) = BALL_MAX_SPEED
    /\ state.ballVelX > 0

\* C27 (SpecPhysics), a second case: a tick that bounces the ball off a
\* wall.
C27_WitnessWall ==
    /\ HitWall
    /\ state.ballVelY = -last.pre.ballVelY
    /\ state.ballVelX = last.pre.ballVelX

\* What C28 says checkScoring returns for a ball at ballX.
ScoredAt(ballX) ==
    IF ballX < -U(BALL_RADIUS) THEN "player2"
    ELSE IF ballX > U(ARENA_WIDTH) + U(BALL_RADIUS) THEN "player1"
    ELSE NULL

\* C28 (SpecPhysics): checkScoring returns player2 exactly when ballX is
\* below -BALL_RADIUS, player1 exactly when ballX is above
\* ARENA_WIDTH + BALL_RADIUS and null for every ballX from the one line to
\* the other, the lines included; the result is that of any state with the
\* same ballX; physicsTick reports the checkScoring of the ball it moved.
C28_CheckScoring ==
    /\ last.op = "checkScoring" =>
        /\ last.pre.ballX = last.y
        /\ last.ret = ScoredAt(last.y)
        /\ (last.y >= -U(BALL_RADIUS) /\ last.y <= U(ARENA_WIDTH) + U(BALL_RADIUS))
               <=> last.ret = NULL
        /\ last.ret = checkScoring([ballX |-> last.y, ballY |-> 0,
                                    ballVelX |-> 0, ballVelY |-> 0,
                                    paddle1Y |-> NaN, paddle2Y |-> NaN])
    /\ last.op = "physicsTick" => last.ret = ScoredAt(state.ballX)

\* The ball touches the left line, moving left.
C28_Witness ==
    /\ last.op = "checkScoring"
    /\ last.y = -U(BALL_RADIUS)
    /\ last.pre.ballVelX < 0
    /\ last.ret = NULL

\* C31 (SpecMatchmaker): the matchmaker never pairs a connection with
\* itself: no two entries of the queue have the same connection id, and the
\* two players of every match a JOIN_QUEUE makes have different connection
\* ids, also when one connection sends JOIN_QUEUE under different usernames.
C31_NoSelfPairing ==
    /\ \A i, j \in 1..Len(state.queue) :
          i # j => state.queue[i].connectionId # state.queue[j].connectionId
    /\ (/\ last.op = "JOIN_QUEUE"
        /\ USERNAME_PATTERN(last.username)
        /\ joinQueue(last.pre, last.conn, last.username, 1).success)
       => LET joined == joinQueue(last.pre, last.conn, last.username, 1).state
              found == findMatch(joined, "game-a")
          IN  /\ \A i, j \in 1..Len(joined.queue) :
                    i # j => joined.queue[i].connectionId
                                 # joined.queue[j].connectionId
              /\ Len(joined.queue) >= 2
                 => found.match.player1.connectionId
                        # found.match.player2.connectionId

\* C32 (SpecMatchmaker): in every state the matchmaker reaches by joins,
\* leaves, disconnects, matches and freeUsernames requests, the lower-cased
\* username of every queued player is in the active set, and no two queued
\* players have the same lower-cased username.
C32_QueuedNamesActive ==
    /\ \A i \in 1..Len(state.queue) :
          toLowerCase(state.queue[i].username) \in state.activeUsernames
    /\ \A i, j \in 1..Len(state.queue) :
          i # j => toLowerCase(state.queue[i].username)
                       # toLowerCase(state.queue[j].username)

\* C33 (Spec): a PADDLE_MOVE, PAUSE, RESUME or LEAVE message, or a
\* disconnect, from a connection that is not in the room's players list
\* leaves the room's state as it was and neither starts nor stops the timer.
C33_OutsidersChangeNothing ==
    (/\ last.op \in {"PADDLE_MOVE", "PAUSE", "RESUME", "LEAVE", "close"}
     /\ ~HasPlayer(last.pre, last.conn))
    => /\ state = last.pre
       /\ gameLoop = last.preLoop

\* The changes of status the room makes.
StatusEdges ==
    {<<"waiting", "countdown">>, <<"countdown", "playing">>,
     <<"playing", "paused">>, <<"paused", "playing">>,
     <<"countdown", "finished">>, <<"playing", "finished">>}

\* C34 (Spec): every handler of the room either leaves the status as it was
\* or changes it along one of the edges waiting to countdown, countdown to
\* playing, playing to paused, paused to playing, countdown to finished and
\* playing to finished; so the status never returns to waiting, and neither
\* does the status become countdown a second time nor the countdown value
\* rise once the countdown has started.
C34_StatusEdges ==
    LET before == last.pre.gameState
        after == state.gameState
    IN  /\ \/ after.status = before.status
           \/ <<before.status, after.status>> \in StatusEdges
        /\ before.status # "waiting" => after.countdown <= before.countdown

\* A RESUME has taken a match that went through waiting, countdown, playing
\* and paused back to playing.
C34_Witness ==
    /\ last.op = "RESUME"
    /\ last.pre.gameState.status = "paused"
    /\ state.gameState.status = "playing"
    /\ state.tickCount = COUNTDOWN_SECONDS * ticksPerSecond
    /\ gameLoop

\* C35 (SpecMatch): finished is absorbing.  A connect, disconnect, client
\* message or timer event that finds the room's status finished leaves the
\* status, the winner, both scores and the ball as they were; the timer is
\* stopped when the event arrives and stopped when its handler returns.
C35_FinishedIsAbsorbing ==
    LET before == last.pre.gameState
        after == state.gameState
    IN  before.status = "finished"
        => /\ after.status = "finished"
           /\ after.winner = before.winner
           /\ after.score1 = before.score1
           /\ after.score2 = before.score2
           /\ Ball(after) = Ball(before)
           /\ ~last.preLoop
           /\ ~gameLoop
           /\ last.op # "timer"

\* A RESUME has arrived in a room whose match the seventh point ended.
C35_Witness ==
    /\ last.op = "RESUME"
    /\ last.pre.gameState.status = "finished"
    /\ last.pre.gameState.score1 = WINNING_SCORE
    /\ last.pre.gameState.winner = "player1"
    /\ state.gameState = last.pre.gameState
    /\ ~gameLoop

\* C36 (SpecMatch): in every reachable state of a game room the winner is
\* non-null exactly when the status is finished, and it is then one of the
\* two sides.
C36_WinnerIffFinished ==
    LET gs == state.gameState
    IN  /\ gs.winner # NULL <=> gs.status = "finished"
        /\ gs.winner \in Sides \cup {NULL}

\* The sixth point has been scored and names no winner; the match goes on.
C36_Witness ==
    /\ last.op = "timer"
    /\ Points(state.gameState) = Points(last.pre.gameState) + 1
    /\ state.gameState.score1 = WINNING_SCORE - 1
    /\ state.gameState.score2 = WINNING_SCORE - 1
    /\ state.gameState.status = "playing"
    /\ state.gameState.winner = NULL

\* C37 (Spec): the notifications of a match are ordered.  Every COUNTDOWN
\* message carries 3, 2 or 1: the 3 when the countdown starts, and after it
\* from the timer a value below the countdown before the tick.  GAME_START
\* is among the messages of a handler exactly when the handler is the timer
\* tick that takes countdown to playing, and once.  No COUNTDOWN message is
\* sent with GAME_START or after it.
C37_NotificationsOrdered ==
    LET before == last.pre.gameState
        after == state.gameState
        starts == /\ last.op = "timer"
                  /\ before.status = "countdown"
                  /\ after.status = "playing"
        counts == SelectSeq(sent, LAMBDA m : m.type = "COUNTDOWN")
        begun == SelectSeq(sent, LAMBDA m : m.type = "GAME_START")
    IN  /\ \A i \in 1..Len(counts) :
              /\ counts[i].val[1] \in 1..COUNTDOWN_SECONDS
              /\ IF last.op = "timer"
                 THEN counts[i].val[1] < before.countdown
                 ELSE counts[i].val[1] = COUNTDOWN_SECONDS
        /\ Len(counts) <= 1
        /\ Len(begun) = (IF starts THEN 1 ELSE 0)
        /\ Len(begun) > 0 => Len(counts) = 0
        /\ before.status \in {"playing", "paused", "finished"}
           => Len(counts) = 0 /\ Len(begun) = 0

\* C38 (SpecMatchmaker): when a handler of the matchmaker has returned, the
\* queue holds at most one player; a JOIN_QUEUE that makes the queue two
\* players long pairs the two before it returns.
C38_AtMostOneWaiting ==
    Len(state.queue) <= 1

\* A JOIN_QUEUE has found one player waiting, joined as the second, and
\* left the queue empty.
C38_Witness ==
    /\ last.op = "JOIN_QUEUE"
    /\ Len(last.pre.queue) = 1
    /\ LET result == joinQueue(last.pre, last.conn, last.username, 1)
       IN  /\ USERNAME_PATTERN(last.username)
           /\ result.success
           /\ Len(result.state.queue) = 2
    /\ state.queue = <<>>
    /\ Sent("MATCH_FOUND")

\* The ball, the scores and the tick counter of the room state s.
Progress(s) ==
    <<Ball(s.gameState), s.gameState.score1, s.gameState.score2, s.tickCount>>

\* C39 (SpecMatch): a PAUSE that finds a status other than playing and a
\* RESUME that finds a status other than paused change neither the state
\* nor the timer.  A PAUSE in playing gives paused with the timer stopped,
\* every handler that finds the room paused leaves the ball, the scores and
\* the tick counter as they were and the status paused unless it is a
\* RESUME, and a RESUME in paused gives playing with the timer running; all
\* three keep the ball, the scores and the tick counter, so that a PAUSE
\* followed by a RESUME restores the match as it was before the PAUSE.
C39_PauseResume ==
    LET before == last.pre.gameState
        after == state.gameState
        same == state = last.pre /\ gameLoop = last.preLoop
    IN  /\ (last.op = "PAUSE" /\ before.status # "playing") => same
        /\ (last.op = "RESUME" /\ before.status # "paused") => same
        /\ (last.op = "PAUSE" /\ before.status = "playing")
           => /\ after.status = "paused"
              /\ Progress(state) = Progress(last.pre)
              /\ ~gameLoop
        /\ before.status = "paused"
           => /\ Progress(state) = Progress(last.pre)
              /\ ~last.preLoop
              /\ last.op # "timer"
              /\ IF last.op = "RESUME"
                 THEN after.status = "playing" /\ gameLoop
                 ELSE after.status = "paused" /\ ~gameLoop

\* A RESUME has taken a match paused at 6 : 6 back to playing.
C39_Witness ==
    /\ last.op = "RESUME"
    /\ last.pre.gameState.status = "paused"
    /\ state.gameState.status = "playing"
    /\ state.gameState.score1 = WINNING_SCORE - 1
    /\ state.gameState.score2 = WINNING_SCORE - 1
    /\ Progress(state) = Progress(last.pre)
    /\ Len(state.players) = 2
    /\ gameLoop

\* C40 (SpecFair): with the timer callback weakly fair, a room whose status
\* is countdown eventually has the status playing or finished, whatever
\* connects, paddle moves, PAUSE and RESUME messages arrive between ticks.
C40_CountdownEnds ==
    (state.gameState.status = "countdown")
        ~> (state.gameState.status \in {"playing", "finished"})

\* The timer has ended a countdown.
C40_Witness ==
    /\ last.op = "timer"
    /\ last.pre.gameState.status = "countdown"
    /\ state.gameState.status = "playing"
    /\ state.tickCount = COUNTDOWN_SECONDS * ticksPerSecond

=============================================================================
